---- MODULE Spec2Model ----
(***************************************************************************)
(* State-machine model of the staged deployment orchestrator              *)
(* (tools/deploynet.py) and of its GCP provider (tools/gcp/provider.py,   *)
(* tools/cloud/gcp/ssh_utils.py).                                         *)
(*                                                                         *)
(* The program is single-threaded.  Its control state is a call stack of  *)
(* frames [fn, pc, loc]; only the top frame steps.  No frame of the       *)
(* program catches an exception raised by a callee (the only try/except   *)
(* blocks wrap single cloud reads and are modelled inside the step that   *)
(* performs the read), so a raise unwinds the whole stack and ends the    *)
(* process; exc then records the exception type and the traceback.        *)
(*                                                                         *)
(* The cloud control plane and the remote hosts are the environment: the  *)
(* outcome of every call into them is a nondeterministic choice made at   *)
(* the step where the program observes it.                                *)
(***************************************************************************)
EXTENDS Integers, Sequences, FiniteSets, TLC

VARIABLES
    stack,      \* call stack, a sequence of frames; the last one is running
    ret,        \* <<function, value>>: the frame that returned last and its value
    exc,        \* exception that ended the current process, or NoExc
    instances,  \* cloud: instance name -> instance resource
    disks,      \* cloud: disk name -> size in GB (0: the disk does not exist)
    firewalls,  \* cloud: firewall rule name -> rule
    metadata,   \* cloud: TRUE when the project metadata holds the SSH key
    op,         \* cloud: the operation the current process issued last
    calls,      \* every mutating cloud call issued so far, with its outcome
    last,       \* the provisioning call that returned last (observation)
    ledger,     \* the ledger file .deployed-state.json
    ledger0,    \* the ledger file as it was when the current process started
    saves,      \* number of save_state calls of the current process
    desc,       \* node descriptors and per-team runtime configs on disk
    run,        \* the current process: its number, stage and environment
    envFault,   \* TRUE once the environment failed a step of the current process
    hosts,      \* remote hosts: node name -> host state
    deployed    \* nodes whose deploy_* call returned in the current process, in order

cloudVars == <<instances, disks, firewalls, metadata, op, calls>>
ledgerVars == <<ledger, ledger0, saves>>
progVars == <<stack, ret, exc, last>>
vars == <<stack, ret, exc, instances, disks, firewalls, metadata, op, calls,
          last, ledger, ledger0, saves, desc, run, envFault, hosts, deployed>>

-----------------------------------------------------------------------------
(* Bounds of the model.                                                    *)

\* Number of processes (invocations of main) run one after the other.
MaxRuns == 2

\* Seconds one poll of a deadline loop takes beyond its sleep.
PollLatency == 58

-----------------------------------------------------------------------------
(* Program constants.                                                      *)

StartDeadline == 180
NatDeadline == 180
PollSleep == 2
DefaultDiskGb == 50

None == "None"
\* nothing has returned yet
NoRet == <<"none", None>>
NoExc == [type |-> "none", msg |-> "none", trace |-> <<>>, loc |-> [none |-> TRUE]]

P2P_RULE == "allow-validator-p2p"
SSH_RULE == "allow-ssh"
VALIDATOR_TAG == "validator"

-----------------------------------------------------------------------------
(* Node descriptors.  A multiaddress string is held as the parts that      *)
(* str.split("/") yields, with flags for whitespace before and after the   *)
(* string (what str.strip() removes).                                      *)

MA(parts) == [lead |-> FALSE, parts |-> parts, trail |-> FALSE]

NodeNames == {"b1", "b2", "v1", "v2"}

DiskName(node_name) ==
    CASE node_name = "b1" -> "b1-db"
      [] node_name = "b2" -> "b2-db"
      [] node_name = "v1" -> "v1-db"
      [] node_name = "v2" -> "v2-db"

DiskNames == {DiskName(n) : n \in NodeNames}

ExtIP(name) ==
    CASE name = "b1" -> "34.0.0.1"
      [] name = "b2" -> "34.0.0.4"
      [] name = "v1" -> "34.0.0.2"
      [] name = "v2" -> "34.0.0.3"

IntIP(name) ==
    CASE name = "b1" -> "10.0.0.1"
      [] name = "b2" -> "10.0.0.4"
      [] name = "v1" -> "10.0.0.2"
      [] name = "v2" -> "10.0.0.3"

B1 == [node_name |-> "b1", team |-> "teamA", peer_id |-> "peerB1",
       listen_addresses |-> <<MA(<<"", "ip4", "0.0.0.0", "udp", "30304">>)>>]

B2 == [node_name |-> "b2", team |-> "teamB", peer_id |-> "peerB2",
       listen_addresses |-> <<MA(<<"", "ip4", "127.0.0.1", "udp", "30304">>)>>]

V1 == [node_name |-> "v1", team |-> "teamA", peer_id |-> "peerV1",
       address |-> "0xA1",
       listen_addresses |-> <<MA(<<"", "ip4", "0.0.0.0", "tcp", "30303">>)>>]

V2 == [node_name |-> "v2", team |-> "teamB", peer_id |-> "peerV2",
       address |-> "0xA2",
       listen_addresses |-> <<MA(<<"", "ip4", "127.0.0.1", "tcp", "30303">>),
                              MA(<<"", "ip4", "0.0.0.0", "udp", "30303">>)>>]

Teams == {"teamA", "teamB"}

\* The runtime config files of a team: present, the validator's
\* (validators/<team>/run_validator.yaml, else validators/<team>/run.yaml),
\* with db_disk_gb = 0 for a file without the key; run_yaml, whether
\* validators/<team>/run.yaml is among them; boot_present, the boot node's
\* (validators/<team>/run_boot.yaml, else boot_nodes/<team>/run.yaml).
TeamConfig(present, run_yaml, boot_present, gb) ==
    [present |-> present, run_yaml |-> run_yaml, boot_present |-> boot_present,
     db_disk_gb |-> gb]

Range(s) == {s[i] : i \in DOMAIN s}

Min(a, b) == IF a < b THEN a ELSE b

\* dict with key k set to v
Put(d, k, v) == [x \in (DOMAIN d) \cup {k} |-> IF x = k THEN v ELSE d[x]]

\* dict.get(k), None when the key is absent
Get(d, k) == IF k \in DOMAIN d THEN d[k] ELSE None

EmptyDict == [x \in {} |-> None]

-----------------------------------------------------------------------------
(* The cloud control plane (googleapiclient compute v1), as the provider   *)
(* uses it.                                                                *)

NoInstance == [exists |-> FALSE, status |-> "NONE", tags |-> {}, nic |-> FALSE,
               ac |-> FALSE, natIP |-> FALSE, disks |-> {}]

NoRule == [exists |-> FALSE, allowed |-> <<>>, sourceTags |-> {},
           sourceRanges |-> {}, targetTags |-> {}]

NoOp == [api |-> "none", target |-> "none", body |-> NoInstance,
         status |-> "DONE", error |-> FALSE]

\* What a read of an instance can return, given what the cloud held at the
\* last read: a PROVISIONING instance may have become RUNNING, and a RUNNING
\* instance with an access config may have been assigned its NAT address.
Evolve(i) ==
    IF ~i.exists THEN {i}
    ELSE {[i EXCEPT !.status = st, !.natIP = nat] :
            st \in (IF i.status = "PROVISIONING" THEN {"PROVISIONING", "RUNNING"}
                    ELSE {i.status}),
            nat \in (IF i.ac /\ i.nic /\ ~i.natIP THEN {FALSE, TRUE}
                     ELSE {i.natIP})}

\* The statuses an operation can be polled in, once it was polled in o.status.
LaterStatuses(s) ==
    CASE s = "PENDING" -> {"PENDING", "RUNNING", "DONE"}
      [] s = "RUNNING" -> {"RUNNING", "DONE"}
      [] s = "DONE" -> {"DONE"}

\* The results a status poll of operation o can return.
PollResults(o) ==
    IF o.status = "DONE" THEN {o}
    ELSE {r \in {[o EXCEPT !.status = s, !.error = e] :
                   s \in LaterStatuses(o.status), e \in BOOLEAN} :
            r.error => r.status = "DONE"}

\* Whether the cloud already holds what a mutating call is to bring about:
\* the named resource (insert), the attachment (attachDisk), the validator
\* tag (setTags), the RUNNING status (start), an access config
\* (addAccessConfig).
Present(api, target, body) ==
    CASE api = "instances.insert" -> instances[target].exists
      [] api = "disks.insert" -> disks[target] # 0
      [] api = "firewalls.insert" -> firewalls[target].exists
      [] api = "instances.attachDisk" -> body \in instances[target].disks
      [] api = "instances.setTags" -> VALIDATOR_TAG \in instances[target].tags
      [] api = "instances.start" -> instances[target].status = "RUNNING"
      [] api = "instances.addAccessConfig" -> instances[target].ac
      [] OTHER -> FALSE

\* The cloud rejects an insert of a name that exists and an attachment that
\* exists (409), and a call on an instance or disk that does not exist (404).
Rejected(api, target, body) ==
    CASE api \in {"instances.insert", "disks.insert", "firewalls.insert"} ->
            Present(api, target, body)
      [] api = "instances.attachDisk" ->
            \/ ~instances[target].exists
            \/ disks[body] = 0
            \/ Present(api, target, body)
      [] OTHER -> ~instances[target].exists

\* The resources after operation o completed without error.
InstancesAfter(o) ==
    CASE o.api = "instances.insert" ->
            [instances EXCEPT ![o.target] = o.body]
      [] o.api = "instances.setTags" ->
            [instances EXCEPT ![o.target].tags = o.body]
      [] o.api = "instances.attachDisk" ->
            [instances EXCEPT ![o.target].disks = @ \cup {o.body}]
      [] o.api = "instances.start" ->
            [instances EXCEPT ![o.target].status =
                IF @ = "STOPPED" THEN "PROVISIONING" ELSE @]
      [] o.api = "instances.addAccessConfig" ->
            [instances EXCEPT ![o.target].ac = TRUE]
      [] OTHER -> instances

DisksAfter(o) ==
    IF o.api = "disks.insert" THEN [disks EXCEPT ![o.target] = o.body]
    ELSE disks

FirewallsAfter(o) ==
    IF o.api = "firewalls.insert" THEN [firewalls EXCEPT ![o.target] = o.body]
    ELSE firewalls

\* calls with the outcome of the call issued last set to r
Settled(r) == [calls EXCEPT ![Len(calls)].result = r]

\* calls with one more call; present tells whether the cloud already held
\* what the call is to bring about
Logged(api, target, body, result) ==
    Append(calls, [api |-> api, target |-> target, result |-> result,
                   present |-> Present(api, target, body)])

-----------------------------------------------------------------------------
(* The call stack.                                                         *)

Depth == Len(stack)
Top == stack[Depth]
Loc == Top.loc
At(f, p) == Depth > 0 /\ Top.fn = f /\ Top.pc = p
Frame(f, p, l) == [fn |-> f, pc |-> p, loc |-> l]
Jump(p, l) == [stack EXCEPT ![Depth] = Frame(Top.fn, p, l)]
Traceback == [i \in 1..Depth |-> stack[i].fn]
Running(f) == \E i \in 1..Depth : stack[i].fn = f

\* the running frame returns v to its caller
Return(v) ==
    /\ stack' = SubSeq(stack, 1, Depth - 1)
    /\ ret' = <<Top.fn, v>>
    /\ exc' = exc

\* the running frame raises: nothing on the stack catches, the process ends
\* (exc keeps the traceback and the locals of the raising frame)
Raise(type, msg) ==
    /\ stack' = <<>>
    /\ ret' = NoRet
    /\ exc' = [type |-> type, msg |-> msg, trace |-> Traceback, loc |-> Loc]

\* the running frame moves to pc p with locals l
Goto(p, l) ==
    /\ stack' = Jump(p, l)
    /\ UNCHANGED <<ret, exc>>

\* the running frame calls callee and will resume at pc p with locals l
Call(p, l, callee) ==
    /\ stack' = Append(Jump(p, l), callee)
    /\ UNCHANGED <<ret, exc>>

\* The running frame issues a mutating cloud call and waits for its
\* operation (waiter is the wait function it calls): op = x.execute();
\* wait(op["name"]).  A rejected call raises HttpError out of execute().
IssueAndWait(api, target, body, p, l, waiter) ==
    IF Rejected(api, target, body)
    THEN /\ calls' = Logged(api, target, body, "rejected")
         /\ op' = op
         /\ Raise("HttpError", "rejected")
    ELSE /\ calls' = Logged(api, target, body, "pending")
         /\ op' = [api |-> api, target |-> target, body |-> body,
                   status |-> "PENDING", error |-> FALSE]
         /\ Call(p, l, Frame(waiter, "poll", [operation_name |-> api]))

\* The cloud side of a status poll that returns result: an operation seen
\* DONE for the first time has taken effect, unless it ended in error.
Polled(result) ==
    /\ op' = result
    /\ IF op.status # "DONE" /\ result.status = "DONE"
       THEN /\ calls' = Settled(IF result.error THEN "error" ELSE "ok")
            /\ instances' = IF result.error THEN instances ELSE InstancesAfter(result)
            /\ disks' = IF result.error THEN disks ELSE DisksAfter(result)
            /\ firewalls' = IF result.error THEN firewalls ELSE FirewallsAfter(result)
            /\ envFault' = (envFault \/ result.error)
       ELSE UNCHANGED <<calls, instances, disks, firewalls, envFault>>

-----------------------------------------------------------------------------
(* Operation waits (tools/gcp/provider.py).                                *)

\* What one iteration of the poll loop does with the result it read.
WaitOutcome_ignores_error(result) ==
    IF result.status = "DONE" THEN "return" ELSE "sleep"

WaitOutcome_never_returns(result) == "sleep"

WaitOutcome(result) ==
    IF result.status = "DONE"
    THEN IF result.error THEN "raise" ELSE "return"
    ELSE "sleep"

GlobalWaitOutcome(result) ==
    IF result.status = "DONE"
    THEN IF result.error THEN "raise" ELSE "return"
    ELSE "sleep"

wait_for_operation ==
    /\ At("_wait_for_operation", "poll")
    /\ \E result \in PollResults(op) :
         /\ Polled(result)
         /\ CASE WaitOutcome(result) = "raise" -> Raise("Exception", "operation failed")
              [] WaitOutcome(result) = "return" -> Return(None)
              [] OTHER -> UNCHANGED <<stack, ret, exc>>
    /\ UNCHANGED <<metadata, last, ledgerVars, desc, run, hosts, deployed>>

wait_for_global_operation ==
    /\ At("_wait_for_global_operation", "poll")
    /\ \E result \in PollResults(op) :
         /\ Polled(result)
         /\ CASE GlobalWaitOutcome(result) = "raise" -> Raise("Exception", "operation failed")
              [] GlobalWaitOutcome(result) = "return" -> Return(None)
              [] OTHER -> UNCHANGED <<stack, ret, exc>>
    /\ UNCHANGED <<metadata, last, ledgerVars, desc, run, hosts, deployed>>

-----------------------------------------------------------------------------
(* Provisioning calls of GCPProvider (tools/gcp/provider.py).              *)

\* The observation kept of a provisioning call when it returns: whether the
\* cloud held the resource when the call was entered, what the call
\* returned, and the mutating cloud calls it issued (c0 is the length of
\* calls when it was entered).
Observed(fn, arg, existed, val, c0, log) ==
    [fn |-> fn, arg |-> arg, existed |-> existed, val |-> val,
     issued |-> [i \in 1..(Len(log) - c0) |-> log[c0 + i].api]]

NoCall == Observed("none", None, FALSE, None, 0, <<>>)

ExistingInstances == {n \in NodeNames : instances[n].exists}
ExistingDisks == {d \in DiskNames : disks[d] # 0}
ExistingRules == {r \in {SSH_RULE, P2P_RULE} : firewalls[r].exists}

InstanceExists_never(existing, name) == FALSE

\* any(i["name"] == name for i in existing.get("items", []))
InstanceExists(existing, name) == name \in existing

MissingValidatorTag_always(current_tags) == TRUE

\* "validator" not in current_tags
MissingValidatorTag(current_tags) == VALIDATOR_TAG \notin current_tags

\* the instance that instances().insert(body=config) creates
NewInstance(status) ==
    [exists |-> TRUE, status |-> status, tags |-> {VALIDATOR_TAG}, nic |-> TRUE,
     ac |-> TRUE, natIP |-> FALSE, disks |-> {}]

create_instance ==
    /\ At("create_instance", "list")
    /\ LET name == Loc.validator.node_name IN
       IF InstanceExists(ExistingInstances, name)
       THEN IF ~instances[name].exists
            THEN /\ Raise("HttpError", "not found")
                 /\ UNCHANGED <<instances, op, calls>>
            ELSE \E instance \in Evolve(instances[name]) :
                   /\ instances' = [instances EXCEPT ![name] = instance]
                   /\ IF MissingValidatorTag(instance.tags)
                      THEN IssueAndWait("instances.setTags", name,
                                        instance.tags \cup {VALIDATOR_TAG}, "return",
                                        Loc, "_wait_for_operation")
                      ELSE /\ Goto("return", Loc)
                           /\ UNCHANGED <<op, calls>>
       ELSE /\ \E status \in {"PROVISIONING", "RUNNING"} :
                 IssueAndWait("instances.insert", name, NewInstance(status),
                              "return", Loc, "_wait_for_operation")
            /\ UNCHANGED instances
    /\ UNCHANGED <<disks, firewalls, metadata, last, ledgerVars, desc, run,
                   envFault, hosts, deployed>>

create_instance_return ==
    /\ At("create_instance", "return")
    /\ Return([name |-> Loc.validator.node_name])
    /\ last' = Observed("create_instance", Loc.validator.node_name, Loc.existed,
                        [name |-> Loc.validator.node_name], Loc.c0, calls)
    /\ UNCHANGED <<cloudVars, ledgerVars, desc, run, envFault, hosts, deployed>>

DiskExists_never(existing, name) == FALSE

\* any(d["name"] == name for d in existing.get("items", []))
DiskExists(existing, name) == name \in existing

CreateVolume(fn) ==
    /\ At(fn, "list")
    /\ LET name == DiskName(Loc.validator.node_name) IN
       IF DiskExists(ExistingDisks, name)
       THEN /\ Goto("return", Loc)
            /\ UNCHANGED <<op, calls>>
       ELSE IssueAndWait("disks.insert", name, Loc.disk_size, "return", Loc,
                         "_wait_for_operation")
    /\ UNCHANGED <<instances, disks, firewalls, metadata, last, ledgerVars, desc,
                   run, envFault, hosts, deployed>>

CreateVolumeReturn(fn) ==
    /\ At(fn, "return")
    /\ Return(DiskName(Loc.validator.node_name))
    /\ last' = Observed(fn, Loc.validator.node_name, Loc.existed,
                        DiskName(Loc.validator.node_name), Loc.c0, calls)
    /\ UNCHANGED <<cloudVars, ledgerVars, desc, run, envFault, hosts, deployed>>

create_volume == CreateVolume("create_volume")
create_volume_return == CreateVolumeReturn("create_volume")

\* any(disk.get("source", "").endswith(volume_name) for disk in inst.get("disks", []))
\* The source of an attached disk d is ".../disks/<d>"; among the disk names
\* of the model none is a proper suffix of another.
AlreadyAttached(attached, volume_name) == volume_name \in attached

AttachVolume(fn) ==
    /\ At(fn, "get")
    /\ LET name == Loc.instance.name IN
       IF ~instances[name].exists
       THEN /\ Raise("HttpError", "not found")
            /\ UNCHANGED <<instances, op, calls>>
       ELSE \E inst \in Evolve(instances[name]) :
              /\ instances' = [instances EXCEPT ![name] = inst]
              /\ IF AlreadyAttached(inst.disks, Loc.volume_name)
                 THEN /\ Goto("return", Loc)
                      /\ UNCHANGED <<op, calls>>
                 ELSE IssueAndWait("instances.attachDisk", name, Loc.volume_name,
                                   "return", Loc, "_wait_for_operation")
    /\ UNCHANGED <<disks, firewalls, metadata, last, ledgerVars, desc, run,
                   envFault, hosts, deployed>>

AttachVolumeReturn(fn) ==
    /\ At(fn, "return")
    /\ Return(None)
    /\ last' = Observed(fn, Loc.instance.name, Loc.existed, None, Loc.c0, calls)
    /\ UNCHANGED <<cloudVars, ledgerVars, desc, run, envFault, hosts, deployed>>

attach_volume == AttachVolume("attach_volume")
attach_volume_return == AttachVolumeReturn("attach_volume")

-----------------------------------------------------------------------------
(* Firewall rules.                                                         *)

\* str.isdigit() on the port tokens that occur in the model
DigitStrings == {"22", "30303", "30304"}
IsDigit(str) == str \in DigitStrings

\* the elements of s in first-seen order, each once
Dedupe(s) ==
    LET F[i \in 0..Len(s)] ==
          IF i = 0 THEN <<>>
          ELSE IF s[i] \in Range(F[i - 1]) THEN F[i - 1] ELSE Append(F[i - 1], s[i])
    IN F[Len(s)]

Flatten(ss) ==
    LET F[i \in 0..Len(ss)] == IF i = 0 THEN <<>> ELSE F[i - 1] \o ss[i]
    IN F[Len(ss)]

\* addr.strip()
strip(addr) == [addr EXCEPT !.lead = FALSE, !.trail = FALSE]

derive_p2p_ports_any_protocol(nodes) ==
    LET addrs == Flatten([i \in 1..Len(nodes) |-> nodes[i].listen_addresses])
        kept(addr) ==
            LET parts == strip(addr).parts IN
            /\ Len(parts) >= 5
            /\ IsDigit(parts[5])
        good == SelectSeq(addrs, kept)
    IN Dedupe([i \in 1..Len(good) |->
                 [protocol |-> strip(good[i]).parts[4],
                  port |-> strip(good[i]).parts[5]]])

\* The list of {"protocol", "port"} dicts, one per (protocol, port) pair, in
\* first-seen order.
derive_p2p_ports_from_listen_addresses(nodes) ==
    LET addrs == Flatten([i \in 1..Len(nodes) |-> nodes[i].listen_addresses])
        kept(addr) ==
            LET parts == strip(addr).parts IN
            /\ Len(parts) >= 5
            /\ parts[4] \in {"tcp", "udp"}
            /\ IsDigit(parts[5])
        good == SelectSeq(addrs, kept)
    IN Dedupe([i \in 1..Len(good) |->
                 [protocol |-> strip(good[i]).parts[4],
                  port |-> strip(good[i]).parts[5]]])

AllowedOf_first_protocol(port_specs) ==
    LET good == SelectSeq(port_specs, LAMBDA p : IsDigit(p.port))
    IN IF good = <<>> THEN <<>>
       ELSE <<[IPProtocol |-> good[1].protocol,
               ports |-> {good[j].port : j \in {k \in 1..Len(good) :
                                                  good[k].protocol = good[1].protocol}}]>>

\* The "allowed" list of ensure_p2p_firewall: one entry per protocol, in the
\* order the protocols are first seen (dict order of by_proto); "ports" is
\* sorted(list(ports)), a function of the set, held here as the set.
AllowedOf(port_specs) ==
    LET good == SelectSeq(port_specs, LAMBDA p : IsDigit(p.port))
        protos == Dedupe([i \in 1..Len(good) |-> good[i].protocol])
    IN [i \in 1..Len(protos) |->
          [IPProtocol |-> protos[i],
           ports |-> {good[j].port : j \in {k \in 1..Len(good) :
                                              good[k].protocol = protos[i]}}]]

P2PRule(allowed) ==
    [exists |-> TRUE, allowed |-> allowed, sourceTags |-> {VALIDATOR_TAG},
     sourceRanges |-> {}, targetTags |-> {VALIDATOR_TAG}]

SSHRule ==
    [exists |-> TRUE, allowed |-> <<[IPProtocol |-> "tcp", ports |-> {"22"}]>>,
     sourceTags |-> {}, sourceRanges |-> {"0.0.0.0/0"},
     targetTags |-> {VALIDATOR_TAG}]

RuleExists_never(existing, rule_name) == FALSE

\* any(rule["name"] == rule_name for rule in (firewalls.get("items") or []))
RuleExists(existing, rule_name) == rule_name \in existing

ensure_p2p_firewall ==
    /\ At("ensure_p2p_firewall", "start")
    /\ LET allowed == AllowedOf(Loc.port_specs) IN
       IF allowed = <<>>
       THEN /\ Goto("return", Loc)
            /\ UNCHANGED <<op, calls>>
       ELSE IF RuleExists(ExistingRules, P2P_RULE)
            THEN /\ Goto("return", Loc)
                 /\ UNCHANGED <<op, calls>>
            ELSE IssueAndWait("firewalls.insert", P2P_RULE, P2PRule(allowed),
                              "return", Loc, "_wait_for_global_operation")
    /\ UNCHANGED <<instances, disks, firewalls, metadata, last, ledgerVars, desc,
                   run, envFault, hosts, deployed>>

ensure_p2p_firewall_return ==
    /\ At("ensure_p2p_firewall", "return")
    /\ Return(None)
    /\ last' = Observed("ensure_p2p_firewall", P2P_RULE, Loc.existed, None,
                        Loc.c0, calls)
    /\ UNCHANGED <<cloudVars, ledgerVars, desc, run, envFault, hosts, deployed>>

\* _ensure_firewall_rule: the SSH ingress rule, ensured when the provider is
\* constructed
\* any(rule["name"] == "allow-ssh" for rule in firewalls.get("items", []))
SshRuleExists(existing) == SSH_RULE \in existing

ensure_firewall_rule ==
    /\ At("_ensure_firewall_rule", "start")
    /\ IF SshRuleExists(ExistingRules)
       THEN /\ Goto("return", Loc)
            /\ UNCHANGED <<op, calls>>
       ELSE IssueAndWait("firewalls.insert", SSH_RULE, SSHRule, "return", Loc,
                         "_wait_for_global_operation")
    /\ UNCHANGED <<instances, disks, firewalls, metadata, last, ledgerVars, desc,
                   run, envFault, hosts, deployed>>

ensure_firewall_rule_return ==
    /\ At("_ensure_firewall_rule", "return")
    /\ Return(None)
    /\ last' = Observed("_ensure_firewall_rule", SSH_RULE, Loc.existed, None,
                        Loc.c0, calls)
    /\ UNCHANGED <<cloudVars, ledgerVars, desc, run, envFault, hosts, deployed>>

-----------------------------------------------------------------------------
(* IP resolution.                                                          *)

\* seconds one iteration of a deadline loop takes: the read, then the sleep
PollCost == PollLatency + PollSleep

\* status != "RUNNING"
NeedsStart(status) == status # "RUNNING"

NeedsAccessConfig_always(inst) == TRUE

\* not access_configs
NeedsAccessConfig(inst) == ~inst.ac

\* time.time() < deadline, elapsed being the seconds since the deadline was set
BeforeDeadline(elapsed, deadline) == elapsed < deadline

get_instance_ip ==
    /\ At("get_instance_ip", "status")
    /\ LET name == Loc.name IN
       IF ~instances[name].exists
       THEN /\ Raise("HttpError", "not found")
            /\ UNCHANGED <<instances, op, calls>>
       ELSE \E inst \in Evolve(instances[name]) :
              /\ instances' = [instances EXCEPT ![name] = inst]
              /\ IF NeedsStart(inst.status)
                 THEN IssueAndWait("instances.start", name, NoInstance,
                                   "await_running", [Loc EXCEPT !.elapsed = 0],
                                   "_wait_for_operation")
                 ELSE /\ Goto("access", Loc)
                      /\ UNCHANGED <<op, calls>>
    /\ UNCHANGED <<disks, firewalls, metadata, last, ledgerVars, desc, run,
                   envFault, hosts, deployed>>

\* while time.time() < deadline: ... else: raise RuntimeError
get_instance_ip_await_running ==
    /\ At("get_instance_ip", "await_running")
    /\ IF BeforeDeadline(Loc.elapsed, StartDeadline)
       THEN \E inst \in Evolve(instances[Loc.name]) :
              /\ instances' = [instances EXCEPT ![Loc.name] = inst]
              /\ IF inst.status = "RUNNING"
                 THEN Goto("access", Loc)
                 ELSE Goto("await_running", [Loc EXCEPT !.elapsed = @ + PollCost])
              /\ UNCHANGED envFault
       ELSE /\ Raise("RuntimeError", "did not reach RUNNING state in time")
            /\ envFault' = TRUE
            /\ UNCHANGED instances
    /\ UNCHANGED <<disks, firewalls, metadata, op, calls, last, ledgerVars, desc,
                   run, hosts, deployed>>

get_instance_ip_access ==
    /\ At("get_instance_ip", "access")
    /\ \E inst \in Evolve(instances[Loc.name]) :
         /\ instances' = [instances EXCEPT ![Loc.name] = inst]
         /\ IF ~inst.nic
            THEN /\ Raise("RuntimeError", "has no network interfaces")
                 /\ envFault' = TRUE
                 /\ UNCHANGED <<op, calls>>
            ELSE /\ envFault' = envFault
                 /\ IF NeedsAccessConfig(inst)
                    THEN IssueAndWait("instances.addAccessConfig", Loc.name,
                                      NoInstance, "natip",
                                      [Loc EXCEPT !.elapsed = 0],
                                      "_wait_for_operation")
                    ELSE /\ Goto("natip", [Loc EXCEPT !.elapsed = 0])
                         /\ UNCHANGED <<op, calls>>
    /\ UNCHANGED <<disks, firewalls, metadata, last, ledgerVars, desc, run,
                   hosts, deployed>>

\* The poll for natIP.  A read that raises is caught (last_err) and the loop
\* goes on.
get_instance_ip_natip ==
    /\ At("get_instance_ip", "natip")
    /\ IF BeforeDeadline(Loc.elapsed, NatDeadline)
       THEN \E inst \in Evolve(instances[Loc.name]), read_raises \in BOOLEAN :
              /\ instances' = [instances EXCEPT ![Loc.name] = inst]
              /\ IF ~read_raises /\ inst.nic /\ inst.ac /\ inst.natIP
                 THEN /\ Return(ExtIP(Loc.name))
                      /\ last' = Observed("get_instance_ip", Loc.name, TRUE,
                                          ExtIP(Loc.name), Loc.c0, calls)
                 ELSE /\ Goto("natip", [Loc EXCEPT !.elapsed = @ + PollCost])
                      /\ UNCHANGED last
              /\ UNCHANGED envFault
       ELSE /\ Raise("RuntimeError", "failed to obtain public IP within timeout")
            /\ envFault' = TRUE
            /\ UNCHANGED <<instances, last>>
    /\ UNCHANGED <<disks, firewalls, metadata, op, calls, ledgerVars, desc, run,
                   hosts, deployed>>

get_instance_internal_ip_raising ==
    /\ At("get_instance_internal_ip", "get")
    /\ \E inst \in Evolve(instances[Loc.name]), read_raises \in BOOLEAN :
         /\ instances' = [instances EXCEPT ![Loc.name] = inst]
         /\ IF ~read_raises /\ inst.exists /\ inst.nic
            THEN Return(IntIP(Loc.name))
            ELSE Raise("Exception", "No internal IP found for instance")
         /\ envFault' = (envFault \/ read_raises)
    /\ UNCHANGED <<disks, firewalls, metadata, op, calls, last, ledgerVars, desc,
                   run, hosts, deployed>>

\* A single read inside try/except: any failure, of the read (read_raises)
\* or of the look-up of networkInterfaces[0].networkIP, is printed and None
\* returned.
get_instance_internal_ip ==
    /\ At("get_instance_internal_ip", "get")
    /\ \E inst \in Evolve(instances[Loc.name]), read_raises \in BOOLEAN :
         /\ instances' = [instances EXCEPT ![Loc.name] = inst]
         /\ Return(IF ~read_raises /\ inst.exists /\ inst.nic
                   THEN IntIP(Loc.name) ELSE None)
         /\ envFault' = (envFault \/ read_raises)
    /\ UNCHANGED <<disks, firewalls, metadata, op, calls, last, ledgerVars, desc,
                   run, hosts, deployed>>

\* name_to_ips values: a dict {"external", "internal"}
IpsDict(external, internal) ==
    [kind |-> "dict", external |-> external, internal |-> internal]

\* a bare str stored where the dict is expected
IpsStr(value) == [kind |-> "str", value |-> value]

collect_ips ==
    /\ At("_collect_ips", "loop")
    /\ IF Loc.i <= Len(Loc.nodes)
       THEN Call("external", Loc,
                 Frame("get_instance_ip", "status",
                       [name |-> Loc.nodes[Loc.i].node_name, elapsed |-> 0,
                        c0 |-> Len(calls)]))
       ELSE Return(Loc.name_to_ips)
    /\ UNCHANGED <<cloudVars, last, ledgerVars, desc, run, envFault, hosts, deployed>>

collect_ips_external ==
    /\ At("_collect_ips", "external")
    /\ Call("internal", [Loc EXCEPT !.external_ip = ret[2]],
            Frame("get_instance_internal_ip", "get",
                  [name |-> Loc.nodes[Loc.i].node_name]))
    /\ UNCHANGED <<cloudVars, last, ledgerVars, desc, run, envFault, hosts, deployed>>

collect_ips_internal ==
    /\ At("_collect_ips", "internal")
    /\ Goto("loop", [Loc EXCEPT
                       !.name_to_ips = Put(@, Loc.nodes[Loc.i].node_name,
                                           IpsDict(Loc.external_ip, ret[2])),
                       !.i = @ + 1])
    /\ UNCHANGED <<cloudVars, last, ledgerVars, desc, run, envFault, hosts, deployed>>

CollectFrame(nodes) ==
    Frame("_collect_ips", "loop",
          [nodes |-> nodes, i |-> 1, name_to_ips |-> EmptyDict, external_ip |-> None])

-----------------------------------------------------------------------------
(* The ledger (tools/deploynet.py: save_state, load_state).                *)

\* DEPLOY_STATE_FILE: absent, or present with data, the value json.load
\* reads from it
NoFile == [present |-> FALSE]
File(state) == [present |-> TRUE, data |-> state]

\* json.dump(state, f) into DEPLOY_STATE_FILE
save_state(state) ==
    /\ ledger' = File(state)
    /\ saves' = saves + 1
    /\ UNCHANGED ledger0

load_state_no_file == EmptyDict

\* {} when the file does not exist
load_state == IF ledger.present THEN ledger.data ELSE EmptyDict

-----------------------------------------------------------------------------
(* The infra stage (tools/deploynet.py: provision_infra).                  *)

get_disk_size_no_default(team) == desc.teams[team].db_disk_gb

\* int(config.get("db_disk_gb", 50))
get_disk_size(team) ==
    IF desc.teams[team].db_disk_gb = 0 THEN DefaultDiskGb
    ELSE desc.teams[team].db_disk_gb

\* datetime.isoformat() of the UTC time t seconds after the first reading
IsoFormat(t) == "2026-10-30T00:00:0" \o ToString(t) \o "+00:00"

\* datetime.now(timezone.utc).isoformat(): the clock advances from one
\* process to the next, the n-th process reads it n seconds after a ledger
\* found by the first process was written
utc_now_iso == IsoFormat(run.n)

FreshState_merged ==
    IF ledger.present THEN ledger.data
    ELSE [metadata |-> [project |-> "project", zone |-> "zone",
                        generated_at |-> utc_now_iso, version |-> 1],
          boot_nodes |-> EmptyDict,
          validators |-> EmptyDict]

\* state = {"metadata": {project, zone, generated_at, version},
\*          "boot_nodes": {}, "validators": {}}
FreshState ==
    [metadata |-> [project |-> "project", zone |-> "zone",
                   generated_at |-> utc_now_iso, version |-> 1],
     boot_nodes |-> EmptyDict,
     validators |-> EmptyDict]

\* state[kind][name]["external_ip"] = ..., ["internal_ip"] = ... for every
\* (name, ips) of name_to_ips
WithIps(records, name_to_ips) ==
    [n \in DOMAIN records |->
       IF n \in DOMAIN name_to_ips
       THEN Put(Put(records[n], "external_ip", name_to_ips[n].external),
                "internal_ip", name_to_ips[n].internal)
       ELSE records[n]]

Persist_at_every_step(pc, state) ==
    IF pc \in {"attached", "boot_ips", "val_ips"} THEN save_state(state)
    ELSE UNCHANGED ledgerVars

\* Where provision_infra calls save_state: once, as its last statement.
Persist(pc, state) ==
    IF pc = "val_ips" THEN save_state(state) ELSE UNCHANGED ledgerVars

CreateInstanceFrame(node) ==
    Frame("create_instance", "list",
          [validator |-> node, c0 |-> Len(calls),
           existed |-> instances[node.node_name].exists])

provision_infra_boot_loop ==
    /\ At("provision_infra", "boot_loop")
    /\ IF Loc.i <= Len(Loc.boot_nodes)
       THEN Call("boot_created", Loc, CreateInstanceFrame(Loc.boot_nodes[Loc.i]))
       ELSE Goto("val_loop", [Loc EXCEPT !.i = 1])
    /\ UNCHANGED <<cloudVars, last, ledgerVars, desc, run, envFault, hosts, deployed>>

provision_infra_boot_created ==
    /\ At("provision_infra", "boot_created")
    /\ LET b == Loc.boot_nodes[Loc.i] IN
       Goto("boot_loop",
            [Loc EXCEPT !.instance = ret[2],
                        !.state.boot_nodes =
                            Put(@, b.node_name,
                                [node_name |-> b.node_name, team |-> b.team,
                                 peer_id |-> b.peer_id]),
                        !.i = @ + 1])
    /\ UNCHANGED <<cloudVars, last, ledgerVars, desc, run, envFault, hosts, deployed>>

\* Top of the validator loop: _get_disk_size (open() raises when the team
\* has no runtime config), then create_instance.  After the loop: the P2P
\* firewall.
provision_infra_val_loop ==
    /\ At("provision_infra", "val_loop")
    /\ IF Loc.i <= Len(Loc.validators)
       THEN LET v == Loc.validators[Loc.i] IN
            IF ~desc.teams[v.team].present
            THEN Raise("FileNotFoundError", "run.yaml")
            ELSE Call("val_created", [Loc EXCEPT !.disk_size = get_disk_size(v.team)],
                      CreateInstanceFrame(v))
       ELSE Call("firewalled", Loc,
                 Frame("ensure_p2p_firewall", "start",
                       [port_specs |-> derive_p2p_ports_from_listen_addresses(
                                           Loc.boot_nodes \o Loc.validators),
                        c0 |-> Len(calls),
                        existed |-> firewalls[P2P_RULE].exists]))
    /\ UNCHANGED <<cloudVars, last, ledgerVars, desc, run, envFault, hosts, deployed>>

provision_infra_val_created ==
    /\ At("provision_infra", "val_created")
    /\ Call("vol_created", [Loc EXCEPT !.instance = ret[2]],
            Frame("create_volume", "list",
                  [validator |-> Loc.validators[Loc.i], disk_size |-> Loc.disk_size,
                   c0 |-> Len(calls),
                   existed |-> disks[DiskName(Loc.validators[Loc.i].node_name)] # 0]))
    /\ UNCHANGED <<cloudVars, last, ledgerVars, desc, run, envFault, hosts, deployed>>

provision_infra_vol_created ==
    /\ At("provision_infra", "vol_created")
    /\ Call("attached", [Loc EXCEPT !.volume_name = ret[2]],
            Frame("attach_volume", "get",
                  [instance |-> Loc.instance, volume_name |-> ret[2],
                   c0 |-> Len(calls),
                   existed |-> ret[2] \in instances[Loc.instance.name].disks]))
    /\ UNCHANGED <<cloudVars, last, ledgerVars, desc, run, envFault, hosts, deployed>>

provision_infra_attached ==
    /\ At("provision_infra", "attached")
    /\ LET v == Loc.validators[Loc.i]
           state == [Loc.state EXCEPT
                       !.validators =
                           Put(@, v.node_name,
                               [node_name |-> v.node_name, team |-> v.team,
                                address |-> v.address, peer_id |-> v.peer_id])]
       IN /\ Goto("val_loop", [Loc EXCEPT !.state = state, !.i = @ + 1])
          /\ Persist("attached", state)
    /\ UNCHANGED <<cloudVars, last, desc, run, envFault, hosts, deployed>>

provision_infra_firewalled ==
    /\ At("provision_infra", "firewalled")
    /\ Call("boot_ips", Loc, CollectFrame(Loc.boot_nodes))
    /\ UNCHANGED <<cloudVars, last, ledgerVars, desc, run, envFault, hosts, deployed>>

provision_infra_boot_ips ==
    /\ At("provision_infra", "boot_ips")
    /\ LET state == [Loc.state EXCEPT !.boot_nodes = WithIps(@, ret[2])] IN
       /\ Call("val_ips", [Loc EXCEPT !.state = state], CollectFrame(Loc.validators))
       /\ Persist("boot_ips", state)
    /\ UNCHANGED <<cloudVars, last, desc, run, envFault, hosts, deployed>>

provision_infra_val_ips ==
    /\ At("provision_infra", "val_ips")
    /\ LET state == [Loc.state EXCEPT !.validators = WithIps(@, ret[2])] IN
       /\ Persist("val_ips", state)
       /\ Return(None)
    /\ UNCHANGED <<cloudVars, last, desc, run, envFault, hosts, deployed>>

InfraFrame(validators, boot_nodes) ==
    Frame("provision_infra", "boot_loop",
          [validators |-> validators, boot_nodes |-> boot_nodes, state |-> FreshState,
           i |-> 1, instance |-> None, volume_name |-> None, disk_size |-> 0])

-----------------------------------------------------------------------------
(* Provider construction and main (tools/gcp/provider.py: __init__,        *)
(* tools/deploynet.py: main).                                              *)

\* GCPProvider.__init__: ensure_ssh_key_exists adds the public key to the
\* project metadata when it is not there (the operation is not waited for),
\* then the SSH firewall rule is ensured.
provider_init ==
    /\ At("GCPProvider.__init__", "start")
    /\ metadata' = TRUE
    /\ calls' = IF metadata THEN calls
                ELSE Logged("projects.setCommonInstanceMetadata", "ssh-keys", None,
                            "unwaited")
    /\ Call("return", Loc,
            Frame("_ensure_firewall_rule", "start",
                  [c0 |-> Len(calls'), existed |-> firewalls[SSH_RULE].exists]))
    /\ UNCHANGED <<instances, disks, firewalls, op, last, ledgerVars, desc, run,
                   envFault, hosts, deployed>>

provider_init_return ==
    /\ At("GCPProvider.__init__", "return")
    /\ Return(None)
    /\ UNCHANGED <<cloudVars, last, ledgerVars, desc, run, envFault, hosts, deployed>>

\* the environment of a process (os.environ.get: None for an unset variable)
EnvVars == {"GCP_PROJECT", "GCP_ZONE", "GOOGLE_APPLICATION_CREDENTIALS"}

FullEnv == [k \in EnvVars |-> "set"]

Envs == {FullEnv} \cup {[FullEnv EXCEPT ![k] = x] : k \in EnvVars, x \in {None, ""}}

MissingEnv_project_only(env) == env["GCP_PROJECT"] \in {None, ""}

\* not project or not zone or not credentials_path
MissingEnv(env) == \E k \in EnvVars : env[k] \in {None, ""}

\* if not project or not zone or not credentials_path: sys.exit(1)
main_start ==
    /\ At("main", "start")
    /\ IF MissingEnv(run.env)
       THEN Raise("SystemExit", "1")
       ELSE Call("constructed", Loc, Frame("GCPProvider.__init__", "start", [x |-> None]))
    /\ UNCHANGED <<cloudVars, last, ledgerVars, desc, run, envFault, hosts, deployed>>

\* load_validators(), load_boot_nodes(), then the infra stage if selected
main_constructed ==
    /\ At("main", "constructed")
    /\ LET l == [validators |-> desc.validators, boot_nodes |-> desc.boot_nodes] IN
       IF run.stage \in {"infra", "all"}
       THEN Call("infra_done", l, InfraFrame(l.validators, l.boot_nodes))
       ELSE Goto("infra_done", l)
    /\ UNCHANGED <<cloudVars, last, ledgerVars, desc, run, envFault, hosts, deployed>>

\* a process starts: python tools/deploynet.py --stage <stage>
StartProcess(stages) ==
    /\ stack = <<>>
    /\ run.n < MaxRuns
    /\ \E stage \in stages :
         run' = [n |-> run.n + 1, stage |-> stage, env |-> FullEnv]
    /\ stack' = <<Frame("main", "start", [x |-> None])>>
    /\ ret' = NoRet
    /\ exc' = NoExc
    /\ last' = NoCall
    /\ ledger0' = ledger
    /\ saves' = 0
    /\ envFault' = FALSE
    /\ deployed' = <<>>
    /\ op' = NoOp
    /\ UNCHANGED <<instances, disks, firewalls, metadata, calls, ledger, desc, hosts>>

-----------------------------------------------------------------------------
(* Spec: processes running the infra stage one after the other against    *)
(* the same cloud project, each aborted or completed.                      *)

main_infra_done_return ==
    /\ At("main", "infra_done")
    /\ run.stage = "infra"
    /\ Return(None)
    /\ UNCHANGED <<cloudVars, last, ledgerVars, desc, run, envFault, hosts, deployed>>

StartInfra == StartProcess({"infra"})

EmptyCloud ==
    [instances |-> [n \in NodeNames |-> NoInstance],
     disks |-> [d \in DiskNames |-> 0],
     firewalls |-> [r \in {SSH_RULE, P2P_RULE} |-> NoRule]]

\* A project left by hand or by an older run: v1 exists, stopped, without the
\* validator tag and without an access config; its disk exists, detached.
DriftedCloud ==
    [EmptyCloud EXCEPT
       !.instances["v1"] = [exists |-> TRUE, status |-> "STOPPED", tags |-> {"http"},
                            nic |-> TRUE, ac |-> FALSE, natIP |-> FALSE, disks |-> {}],
       !.disks["v1-db"] = 20]

AllTeams == [t \in Teams |-> IF t = "teamA" THEN TeamConfig(TRUE, TRUE, TRUE, 0)
                             ELSE TeamConfig(TRUE, TRUE, TRUE, 100)]

Descs ==
    {[boot_nodes |-> <<B1>>, validators |-> <<V1, V2>>, teams |-> AllTeams],
     [boot_nodes |-> <<>>, validators |-> <<V1, V2>>, teams |-> AllTeams]}

NoHost == [containers |-> {}, trace |-> <<>>]

InitCommon ==
    /\ stack = <<>>
    /\ ret = NoRet
    /\ exc = NoExc
    /\ metadata = FALSE
    /\ op = NoOp
    /\ calls = <<>>
    /\ last = NoCall
    /\ ledger0 = NoFile
    /\ saves = 0
    /\ run = [n |-> 0, stage |-> "none", env |-> FullEnv]
    /\ envFault = FALSE
    /\ hosts = [n \in NodeNames |-> NoHost]
    /\ deployed = <<>>

Init ==
    /\ InitCommon
    /\ \E cloud \in {EmptyCloud, DriftedCloud} :
         /\ instances = cloud.instances
         /\ disks = cloud.disks
         /\ firewalls = cloud.firewalls
    /\ ledger = NoFile
    /\ desc \in Descs

Provisioning ==
    \/ wait_for_operation
    \/ wait_for_global_operation
    \/ create_instance
    \/ create_instance_return
    \/ create_volume
    \/ create_volume_return
    \/ attach_volume
    \/ attach_volume_return
    \/ ensure_p2p_firewall
    \/ ensure_p2p_firewall_return
    \/ ensure_firewall_rule
    \/ ensure_firewall_rule_return
    \/ get_instance_ip
    \/ get_instance_ip_await_running
    \/ get_instance_ip_access
    \/ get_instance_ip_natip
    \/ get_instance_internal_ip
    \/ collect_ips
    \/ collect_ips_external
    \/ collect_ips_internal
    \/ provision_infra_boot_loop
    \/ provision_infra_boot_created
    \/ provision_infra_val_loop
    \/ provision_infra_val_created
    \/ provision_infra_vol_created
    \/ provision_infra_attached
    \/ provision_infra_firewalled
    \/ provision_infra_boot_ips
    \/ provision_infra_val_ips
    \/ provider_init
    \/ provider_init_return
    \/ main_start
    \/ main_constructed

Next ==
    \/ StartInfra
    \/ Provisioning
    \/ main_infra_done_return

Spec == Init /\ [][Next]_vars

-----------------------------------------------------------------------------
(* Remote shell (tools/cloud/gcp/ssh_utils.py).  hosts[n].trace is the     *)
(* sequence of remote actions the latest deployment performed on host n,   *)
(* each with whether it succeeded (a remote command: exit status 0).       *)

\* Remote commands that may exit non-zero in one process.
MaxFailedCommands == 1

WaitSshTimeout == 60
ProbeTimeout == 5
ProbeSleep == 3
SshRetries == 5
SshDelay == 2

HostOf(ip) == CHOOSE n \in NodeNames : ExtIP(n) = ip

Acted(trace, step, ok) == Append(trace, [step |-> step, ok |-> ok])

FailedCommands ==
    Cardinality(UNION {{<<n, i>> : i \in {j \in DOMAIN hosts[n].trace :
                                            ~hosts[n].trace[j].ok}} :
                       n \in NodeNames})

ExitStatuses == IF FailedCommands < MaxFailedCommands THEN {0, 1} ELSE {0}

wait_for_ssh_returns_on_timeout ==
    /\ At("wait_for_ssh", "probe")
    /\ IF Loc.elapsed < WaitSshTimeout
       THEN \E up \in BOOLEAN, cost \in {ProbeSleep, ProbeTimeout + ProbeSleep} :
              IF up
              THEN /\ hosts' = [hosts EXCEPT ![HostOf(Loc.ip)].trace =
                                                Acted(@, "wait_ssh", TRUE)]
                   /\ Return(None)
                   /\ UNCHANGED envFault
              ELSE /\ Goto("probe", [Loc EXCEPT !.elapsed = @ + cost])
                   /\ UNCHANGED <<hosts, envFault>>
       ELSE /\ Return(None)
            /\ envFault' = TRUE
            /\ UNCHANGED hosts
    /\ UNCHANGED <<cloudVars, last, ledgerVars, desc, run, deployed>>

\* while time.time() - start < timeout: a probe of port 22 that fails is
\* refused at once or times out, then the loop sleeps
wait_for_ssh ==
    /\ At("wait_for_ssh", "probe")
    /\ IF Loc.elapsed < WaitSshTimeout
       THEN \E up \in BOOLEAN, cost \in {ProbeSleep, ProbeTimeout + ProbeSleep} :
              IF up
              THEN /\ hosts' = [hosts EXCEPT ![HostOf(Loc.ip)].trace =
                                                Acted(@, "wait_ssh", TRUE)]
                   /\ Return(None)
                   /\ UNCHANGED envFault
              ELSE /\ Goto("probe", [Loc EXCEPT !.elapsed = @ + cost])
                   /\ UNCHANGED <<hosts, envFault>>
       ELSE /\ Raise("Exception", "SSH not available")
            /\ envFault' = TRUE
            /\ UNCHANGED hosts
    /\ UNCHANGED <<cloudVars, last, ledgerVars, desc, run, deployed>>

\* what client.connect does: it returns, raises AuthenticationException, or
\* raises something else (no route, connection reset, bad host key)
ConnectOutcomes == {"connected", "auth_failed", "failed"}

ssh_connect_constant_delay ==
    /\ At("ssh_connect", "attempt")
    /\ \E outcome \in ConnectOutcomes :
         CASE outcome = "connected" ->
                /\ hosts' = [hosts EXCEPT ![HostOf(Loc.ip)].trace =
                                            Acted(@, "connect", TRUE)]
                /\ Return("client")
                /\ UNCHANGED envFault
           [] outcome = "failed" ->
                /\ Raise("SSHException", "connect failed")
                /\ envFault' = TRUE
                /\ UNCHANGED hosts
           [] OTHER ->
                IF Loc.attempt = SshRetries
                THEN /\ Raise("AuthenticationException", "auth failed")
                     /\ envFault' = TRUE
                     /\ UNCHANGED hosts
                ELSE /\ Goto("attempt", [Loc EXCEPT !.attempt = @ + 1,
                                                    !.slept = @ + Loc.delay])
                     /\ UNCHANGED <<hosts, envFault>>
    /\ UNCHANGED <<cloudVars, last, ledgerVars, desc, run, deployed>>

\* for attempt in range(1, retries + 1): an AuthenticationException is
\* retried after delay, which doubles, and re-raised on the last attempt;
\* no other exception is caught
ssh_connect ==
    /\ At("ssh_connect", "attempt")
    /\ \E outcome \in ConnectOutcomes :
         CASE outcome = "connected" ->
                /\ hosts' = [hosts EXCEPT ![HostOf(Loc.ip)].trace =
                                            Acted(@, "connect", TRUE)]
                /\ Return("client")
                /\ UNCHANGED envFault
           [] outcome = "failed" ->
                /\ Raise("SSHException", "connect failed")
                /\ envFault' = TRUE
                /\ UNCHANGED hosts
           [] OTHER ->
                IF Loc.attempt = SshRetries
                THEN /\ Raise("AuthenticationException", "auth failed")
                     /\ envFault' = TRUE
                     /\ UNCHANGED hosts
                ELSE /\ Goto("attempt", [Loc EXCEPT !.attempt = @ + 1,
                                                    !.slept = @ + Loc.delay,
                                                    !.delay = @ * 2])
                     /\ UNCHANGED <<hosts, envFault>>
    /\ UNCHANGED <<cloudVars, last, ledgerVars, desc, run, deployed>>

\* ssh_run_command: the command runs, its output is printed, its exit status
\* is not read.  The host after the command step ran with exit status.
ssh_run_command(host, name, step, status) ==
    [trace |-> Acted(host.trace, step, status = 0),
     containers |->
        IF status # 0 THEN host.containers
        ELSE CASE step = "stop_rm" -> host.containers \ {name}
               [] step = "run" -> host.containers \cup {name}
               [] OTHER -> host.containers]

-----------------------------------------------------------------------------
(* Per-node deployment (tools/gcp/provider.py: deploy_validator,           *)
(* deploy_boot_node).                                                      *)

\* The statements of deploy_validator after ssh_connect, in program order;
\* "config" is the local load of the team's runtime config.
ValidatorSteps_mount_first ==
    <<"install", "upload", "permfix", "config", "mount", "settle", "mkdir",
      "chown", "stop_rm", "pull", "run">>

ValidatorSteps_pull_first ==
    <<"install", "upload", "permfix", "config", "settle", "mkdir", "mount",
      "chown", "pull", "stop_rm", "run">>

ValidatorSteps ==
    <<"install", "upload", "permfix", "config", "settle", "mkdir", "mount",
      "chown", "stop_rm", "pull", "run">>

\* The statements of deploy_boot_node after ssh_connect, in program order;
\* "mkdir_data" is mkdir -p /home/ubuntu/<name>-data, the host data
\* directory, where deploy_validator's "mkdir" is that of the mount point.
BootNodeSteps ==
    <<"install", "upload", "permfix", "config", "mkdir_data", "stop_rm", "pull",
      "run">>

DeployFrame(fn, node, peer_addrs, validator_addrs) ==
    Frame(fn, "resolve",
          [node |-> node, peer_addrs |-> peer_addrs,
           validator_addrs |-> validator_addrs, ip |-> None, k |-> 1])

\* ip = self.get_instance_ip(name)
DeployResolve(fn) ==
    /\ At(fn, "resolve")
    /\ hosts' = [hosts EXCEPT ![Loc.node.node_name].trace = <<>>]
    /\ Call("wait", Loc,
            Frame("get_instance_ip", "status",
                  [name |-> Loc.node.node_name, elapsed |-> 0, c0 |-> Len(calls)]))
    /\ UNCHANGED <<cloudVars, last, ledgerVars, desc, run, envFault, deployed>>

\* wait_for_ssh(ip)
DeployWait(fn) ==
    /\ At(fn, "wait")
    /\ Call("connect", [Loc EXCEPT !.ip = ret[2]],
            Frame("wait_for_ssh", "probe", [ip |-> ret[2], elapsed |-> 0]))
    /\ UNCHANGED <<cloudVars, last, ledgerVars, desc, run, envFault, hosts, deployed>>

\* client = ssh_connect(ip)
DeployConnect(fn) ==
    /\ At(fn, "connect")
    /\ Call("remote", Loc,
            Frame("ssh_connect", "attempt",
                  [ip |-> Loc.ip, attempt |-> 1, delay |-> SshDelay, slept |-> 0]))
    /\ UNCHANGED <<cloudVars, last, ledgerVars, desc, run, envFault, hosts, deployed>>

\* One statement of the rest of the function: the identity upload
\* (sftp.put may raise), the config load (open() raises when the team has
\* no runtime config for this kind of node: run_boot.yaml or
\* boot_nodes/<team>/run.yaml for deploy_boot_node, run_validator.yaml or
\* run.yaml for deploy_validator, run.yaml for deploy_validator of
\* tools/cloud/gcp/provider.py), the disk settle wait (_wait_for_disk raises on a
\* non-zero exit code), or a remote command through ssh_run_command.
DeployRemote(fn, steps) ==
    /\ At(fn, "remote")
    /\ LET name == Loc.node.node_name
           step == steps[Loc.k]
           Proceed == IF Loc.k = Len(steps) THEN Return(None)
                      ELSE Goto("remote", [Loc EXCEPT !.k = @ + 1])
       IN CASE step = "upload" ->
                 \E put_raises \in BOOLEAN :
                   IF put_raises
                   THEN /\ Raise("IOError", "sftp put")
                        /\ envFault' = TRUE
                        /\ UNCHANGED hosts
                   ELSE /\ hosts' = [hosts EXCEPT ![name].trace = Acted(@, step, TRUE)]
                        /\ Proceed
                        /\ UNCHANGED envFault
            [] step = "config" ->
                 /\ CASE fn = "deploy_boot_node" ->
                           IF desc.teams[Loc.node.team].boot_present THEN Proceed
                           ELSE Raise("FileNotFoundError", "boot_nodes/run.yaml")
                      [] fn = "cloud.deploy_validator" ->
                           IF desc.teams[Loc.node.team].run_yaml THEN Proceed
                           ELSE Raise("FileNotFoundError", "run.yaml")
                      [] OTHER ->
                           IF desc.teams[Loc.node.team].present THEN Proceed
                           ELSE Raise("FileNotFoundError", "run.yaml")
                 /\ UNCHANGED <<hosts, envFault>>
            [] step = "settle" ->
                 \E exit_code \in {0, 1} :
                   /\ hosts' = [hosts EXCEPT ![name].trace = Acted(@, step, exit_code = 0)]
                   /\ envFault' = (envFault \/ exit_code # 0)
                   /\ IF exit_code # 0
                      THEN Raise("RuntimeError", "disk did not settle")
                      ELSE Proceed
            [] OTHER ->
                 \E status \in ExitStatuses :
                   /\ hosts' = [hosts EXCEPT ![name] = ssh_run_command(@, name, step, status)]
                   /\ envFault' = (envFault \/ status # 0)
                   /\ Proceed
    /\ UNCHANGED <<cloudVars, last, ledgerVars, desc, run, deployed>>

deploy_validator == DeployResolve("deploy_validator")
deploy_validator_wait == DeployWait("deploy_validator")
deploy_validator_connect == DeployConnect("deploy_validator")
deploy_validator_remote == DeployRemote("deploy_validator", ValidatorSteps)

deploy_boot_node == DeployResolve("deploy_boot_node")
deploy_boot_node_wait == DeployWait("deploy_boot_node")
deploy_boot_node_connect == DeployConnect("deploy_boot_node")
deploy_boot_node_remote == DeployRemote("deploy_boot_node", BootNodeSteps)

-----------------------------------------------------------------------------
(* Topology (tools/deploynet.py).  A comma-joined string is held as the    *)
(* sequence of its elements ("" is the empty sequence).                    *)

\* name_to_ips.get(name) of a name that is not a key
NoIps == [kind |-> "none"]

GetIps(name_to_ips, name) ==
    IF name \in DOMAIN name_to_ips THEN name_to_ips[name] ELSE NoIps

\* bool(value) of a name_to_ips value: None is false, a dict with its two
\* keys and a non-empty str are true
Truthy(ips) == ips.kind # "none"

\* value.get(...): a dict has the method, a str has not (AttributeError)
HasGet(ips) == ips.kind # "str"

\* state.get(kind, {})
StateGet(state, kind) == IF kind \in DOMAIN state THEN state[kind] ELSE EmptyDict

IpsOfRecords_external(records) ==
    [n \in DOMAIN records |->
       IpsDict(Get(records[n], "external_ip"), Get(records[n], "external_ip"))]

\* {name: {"external": info.get("external_ip"),
\*         "internal": info.get("internal_ip")} for name, info in records}
IpsOfRecords(records) ==
    [n \in DOMAIN records |->
       IpsDict(Get(records[n], "external_ip"), Get(records[n], "internal_ip"))]

\* by_name = {n["node_name"]: n for n in nodes}, as the sequence of its
\* values: one per name, at the place of the name's first node, the value
\* of its last
ByName(nodes) ==
    LET names == Dedupe([i \in 1..Len(nodes) |-> nodes[i].node_name])
        last_of(name) ==
            CHOOSE j \in DOMAIN nodes :
                /\ nodes[j].node_name = name
                /\ \A k \in DOMAIN nodes : nodes[k].node_name = name => k <= j
    IN [i \in 1..Len(names) |-> nodes[last_of(names[i])]]

normalize_multiaddr_wildcard_only(listen_addr, internal_ip) ==
    LET parts == strip(listen_addr).parts IN
    MA(IF Len(parts) >= 4 /\ parts[2] = "ip4" /\ parts[3] = "0.0.0.0"
       THEN [parts EXCEPT ![3] = internal_ip]
       ELSE parts)

\* parts = listen_addr.strip().split("/"); parts[2] replaced when
\* len(parts) >= 4, parts[1] == "ip4" and the host is a sentinel; "/".join
normalize_multiaddr_with_internal_ip(listen_addr, internal_ip) ==
    LET parts == strip(listen_addr).parts IN
    MA(IF Len(parts) >= 4 /\ parts[2] = "ip4"
          /\ parts[3] \in {"127.0.0.1", "0.0.0.0"}
       THEN [parts EXCEPT ![3] = internal_ip]
       ELSE parts)

\* f"{base}/p2p/{peer_id}"
WithPeerId(base, peer_id) == MA(base.parts \o <<"p2p", peer_id>>)

\* the nodes that contribute an address: internal IP known, a listen address
Contributes(node, name_to_ips) ==
    LET ips == GetIps(name_to_ips, node.node_name) IN
    /\ Truthy(ips)
    /\ ips.internal # None
    /\ node.listen_addresses # <<>>

PeerAddr(node, name_to_ips) ==
    WithPeerId(normalize_multiaddr_with_internal_ip(
                   node.listen_addresses[1],
                   GetIps(name_to_ips, node.node_name).internal),
               node.peer_id)

\* _build_boot_nodes_addrs_csv raises AttributeError at the first boot node
\* whose name_to_ips value is a str
build_boot_nodes_addrs_csv_raises(boot_nodes, name_to_ips) ==
    \E i \in DOMAIN boot_nodes :
        ~HasGet(GetIps(name_to_ips, boot_nodes[i].node_name))

build_boot_nodes_addrs_csv_drops_last(boot_nodes, name_to_ips) ==
    LET from == SelectSeq(boot_nodes, LAMBDA b : Contributes(b, name_to_ips))
        all == Dedupe([i \in 1..Len(from) |-> PeerAddr(from[i], name_to_ips)])
    IN SubSeq(all, 1, Len(all) - 1)

build_boot_nodes_addrs_csv(boot_nodes, name_to_ips) ==
    LET from == SelectSeq(boot_nodes, LAMBDA b : Contributes(b, name_to_ips))
    IN Dedupe([i \in 1..Len(from) |-> PeerAddr(from[i], name_to_ips)])

\* _build_bootstrap_multiaddrs raises AttributeError at the first peer of a
\* node whose name_to_ips value is a str
build_bootstrap_multiaddrs_raises(nodes, name_to_ips) ==
    \E i, j \in DOMAIN nodes :
        /\ nodes[i].node_name # nodes[j].node_name
        /\ ~HasGet(GetIps(name_to_ips, nodes[j].node_name))

build_bootstrap_multiaddrs_with_self(nodes, name_to_ips) ==
    [name \in {nodes[i].node_name : i \in DOMAIN nodes} |->
       LET from == SelectSeq(ByName(nodes),
                             LAMBDA pn : /\ HasGet(GetIps(name_to_ips, pn.node_name))
                                         /\ Contributes(pn, name_to_ips))
       IN Dedupe([i \in 1..Len(from) |-> PeerAddr(from[i], name_to_ips)])]

build_bootstrap_multiaddrs_keeps_duplicates(nodes, name_to_ips) ==
    [name \in {nodes[i].node_name : i \in DOMAIN nodes} |->
       LET from == SelectSeq(ByName(nodes), LAMBDA pn : /\ pn.node_name # name
                                                        /\ Contributes(pn, name_to_ips))
       IN [i \in 1..Len(from) |-> PeerAddr(from[i], name_to_ips)]]

\* {name: ",".join(uniq)}: for every name the addresses of the other names
\* of by_name, in its order, each once
build_bootstrap_multiaddrs(nodes, name_to_ips) ==
    [name \in {nodes[i].node_name : i \in DOMAIN nodes} |->
       LET from == SelectSeq(ByName(nodes), LAMBDA pn : /\ pn.node_name # name
                                                        /\ Contributes(pn, name_to_ips))
       IN Dedupe([i \in 1..Len(from) |-> PeerAddr(from[i], name_to_ips)])]

build_validator_addrs_all(validators) ==
    [name \in {validators[i].node_name : i \in DOMAIN validators} |->
       [i \in 1..Len(validators) |-> validators[i].address]]

\* {name: ",".join(ov["address"] for ov in validators
\*                 if ov["node_name"] != name)}
build_validator_addrs(validators) ==
    [name \in {validators[i].node_name : i \in DOMAIN validators} |->
       LET others == SelectSeq(ByName(validators), LAMBDA ov : ov.node_name # name)
       IN [i \in 1..Len(others) |-> others[i].address]]

-----------------------------------------------------------------------------
(* The app stage (tools/deploynet.py: deploy_boot_nodes, deploy_apps).     *)
(* A frame's "resolved" is the set of names its fallback resolved live.    *)

IpFrame(name) ==
    Frame("get_instance_ip", "status",
          [name |-> name, elapsed |-> 0, c0 |-> Len(calls)])

\* state = load_state(); name_to_ips from its boot node records
deploy_boot_nodes ==
    /\ At("deploy_boot_nodes", "load")
    /\ Goto("fallback",
            [Loc EXCEPT !.name_to_ips =
                           IpsOfRecords(StateGet(load_state, "boot_nodes"))])
    /\ UNCHANGED <<cloudVars, last, ledgerVars, desc, run, envFault, hosts, deployed>>

\* for b in boot_nodes: if not name_to_ips.get(name): live lookup.  After
\* the loop the bootstrap map is built among the boot nodes.
deploy_boot_nodes_fallback ==
    /\ At("deploy_boot_nodes", "fallback")
    /\ IF Loc.i <= Len(Loc.boot_nodes)
       THEN LET name == Loc.boot_nodes[Loc.i].node_name IN
            IF ~Truthy(GetIps(Loc.name_to_ips, name))
            THEN Call("external", [Loc EXCEPT !.resolved = @ \cup {name}],
                      IpFrame(name))
            ELSE Goto("fallback", [Loc EXCEPT !.i = @ + 1])
       ELSE IF build_bootstrap_multiaddrs_raises(Loc.boot_nodes, Loc.name_to_ips)
            THEN Raise("AttributeError", "'str' object has no attribute 'get'")
            ELSE Goto("deploy",
                      [Loc EXCEPT !.i = 1,
                                  !.bootstrap_map =
                                     build_bootstrap_multiaddrs(Loc.boot_nodes,
                                                                Loc.name_to_ips)])
    /\ UNCHANGED <<cloudVars, last, ledgerVars, desc, run, envFault, hosts, deployed>>

deploy_boot_nodes_external ==
    /\ At("deploy_boot_nodes", "external")
    /\ Call("internal", [Loc EXCEPT !.external_ip = ret[2]],
            Frame("get_instance_internal_ip", "get",
                  [name |-> Loc.boot_nodes[Loc.i].node_name]))
    /\ UNCHANGED <<cloudVars, last, ledgerVars, desc, run, envFault, hosts, deployed>>

\* name_to_ips[name] = {"external": external_ip, "internal": internal_ip}
deploy_boot_nodes_internal ==
    /\ At("deploy_boot_nodes", "internal")
    /\ Goto("fallback",
            [Loc EXCEPT !.name_to_ips = Put(@, Loc.boot_nodes[Loc.i].node_name,
                                            IpsDict(Loc.external_ip, ret[2])),
                        !.i = @ + 1])
    /\ UNCHANGED <<cloudVars, last, ledgerVars, desc, run, envFault, hosts, deployed>>

\* for b in boot_nodes: provider.deploy_boot_node(...)
deploy_boot_nodes_deploy ==
    /\ At("deploy_boot_nodes", "deploy")
    /\ IF Loc.i <= Len(Loc.boot_nodes)
       THEN LET b == Loc.boot_nodes[Loc.i] IN
            Call("deployed", Loc,
                 DeployFrame("deploy_boot_node", b,
                             Loc.bootstrap_map[b.node_name], <<>>))
       ELSE Return(None)
    /\ UNCHANGED <<cloudVars, last, ledgerVars, desc, run, envFault, hosts, deployed>>

deploy_boot_nodes_deployed ==
    /\ At("deploy_boot_nodes", "deployed")
    /\ deployed' = Append(deployed, Loc.boot_nodes[Loc.i].node_name)
    /\ Goto("deploy", [Loc EXCEPT !.i = @ + 1])
    /\ UNCHANGED <<cloudVars, last, ledgerVars, desc, run, envFault, hosts>>

BootNodesFrame(boot_nodes) ==
    Frame("deploy_boot_nodes", "load",
          [boot_nodes |-> boot_nodes, name_to_ips |-> EmptyDict, i |-> 1,
           external_ip |-> None, resolved |-> {}, bootstrap_map |-> EmptyDict])

\* state = load_state(); both name_to_ips maps from its records
deploy_apps ==
    /\ At("deploy_apps", "load")
    /\ Goto("val_fallback",
            [Loc EXCEPT !.name_to_ips_vals =
                           IpsOfRecords(StateGet(load_state, "validators")),
                        !.name_to_ips_boot =
                           IpsOfRecords(StateGet(load_state, "boot_nodes"))])
    /\ UNCHANGED <<cloudVars, last, ledgerVars, desc, run, envFault, hosts, deployed>>

\* for v in validators: if not name_to_ips_vals.get(name):
\*     name_to_ips_vals[name] = provider.get_instance_ip(name)
\* (the external address, a str, is stored where the builders expect the
\* dict of both addresses)
deploy_apps_val_fallback ==
    /\ At("deploy_apps", "val_fallback")
    /\ IF Loc.i <= Len(Loc.validators)
       THEN LET name == Loc.validators[Loc.i].node_name IN
            IF ~Truthy(GetIps(Loc.name_to_ips_vals, name))
            THEN Call("val_resolved", [Loc EXCEPT !.resolved = @ \cup {name}],
                      IpFrame(name))
            ELSE Goto("val_fallback", [Loc EXCEPT !.i = @ + 1])
       ELSE Goto("boot_fallback", [Loc EXCEPT !.i = 1])
    /\ UNCHANGED <<cloudVars, last, ledgerVars, desc, run, envFault, hosts, deployed>>

deploy_apps_val_resolved ==
    /\ At("deploy_apps", "val_resolved")
    /\ LET name == Loc.validators[Loc.i].node_name IN
       Goto("val_fallback",
            [Loc EXCEPT !.name_to_ips_vals = Put(@, name, IpsStr(ret[2])),
                        !.i = @ + 1])
    /\ UNCHANGED <<cloudVars, last, ledgerVars, desc, run, envFault, hosts, deployed>>

\* for b in boot_nodes: if not name_to_ips_boot.get(name): live lookup.
\* After the loop the bootstrap addresses are built: from the boot nodes if
\* there are any, else among the validators.
deploy_apps_boot_fallback ==
    /\ At("deploy_apps", "boot_fallback")
    /\ IF Loc.i <= Len(Loc.boot_nodes)
       THEN LET name == Loc.boot_nodes[Loc.i].node_name IN
            IF ~Truthy(GetIps(Loc.name_to_ips_boot, name))
            THEN Call("boot_resolved", [Loc EXCEPT !.resolved = @ \cup {name}],
                      IpFrame(name))
            ELSE Goto("boot_fallback", [Loc EXCEPT !.i = @ + 1])
       ELSE Goto("build", [Loc EXCEPT !.i = 1])
    /\ UNCHANGED <<cloudVars, last, ledgerVars, desc, run, envFault, hosts, deployed>>

deploy_apps_boot_resolved ==
    /\ At("deploy_apps", "boot_resolved")
    /\ LET name == Loc.boot_nodes[Loc.i].node_name IN
       Goto("boot_fallback",
            [Loc EXCEPT !.name_to_ips_boot = Put(@, name, IpsStr(ret[2])),
                        !.i = @ + 1])
    /\ UNCHANGED <<cloudVars, last, ledgerVars, desc, run, envFault, hosts, deployed>>

\* if boot_nodes: _build_boot_nodes_addrs_csv, else
\* _build_bootstrap_multiaddrs(validators); then _build_validator_addrs
deploy_apps_build ==
    /\ At("deploy_apps", "build")
    /\ IF Loc.boot_nodes # <<>>
       THEN IF build_boot_nodes_addrs_csv_raises(Loc.boot_nodes, Loc.name_to_ips_boot)
            THEN Raise("AttributeError", "'str' object has no attribute 'get'")
            ELSE Goto("deploy",
                      [Loc EXCEPT !.bootstrap_addrs_all =
                                     build_boot_nodes_addrs_csv(Loc.boot_nodes,
                                                                Loc.name_to_ips_boot),
                                  !.validator_addrs_map =
                                     build_validator_addrs(Loc.validators)])
       ELSE IF build_bootstrap_multiaddrs_raises(Loc.validators, Loc.name_to_ips_vals)
            THEN Raise("AttributeError", "'str' object has no attribute 'get'")
            ELSE Goto("deploy",
                      [Loc EXCEPT !.bootstrap_map =
                                     build_bootstrap_multiaddrs(Loc.validators,
                                                                Loc.name_to_ips_vals),
                                  !.validator_addrs_map =
                                     build_validator_addrs(Loc.validators)])
    /\ UNCHANGED <<cloudVars, last, ledgerVars, desc, run, envFault, hosts, deployed>>

\* for v in validators: provider.deploy_validator(...)
deploy_apps_deploy ==
    /\ At("deploy_apps", "deploy")
    /\ IF Loc.i <= Len(Loc.validators)
       THEN LET v == Loc.validators[Loc.i]
                bootstrap_addrs ==
                    IF Loc.boot_nodes # <<>> THEN Loc.bootstrap_addrs_all
                    ELSE Loc.bootstrap_map[v.node_name]
            IN Call("deployed", Loc,
                    DeployFrame("deploy_validator", v, bootstrap_addrs,
                                Loc.validator_addrs_map[v.node_name]))
       ELSE Return(None)
    /\ UNCHANGED <<cloudVars, last, ledgerVars, desc, run, envFault, hosts, deployed>>

deploy_apps_deployed ==
    /\ At("deploy_apps", "deployed")
    /\ deployed' = Append(deployed, Loc.validators[Loc.i].node_name)
    /\ Goto("deploy", [Loc EXCEPT !.i = @ + 1])
    /\ UNCHANGED <<cloudVars, last, ledgerVars, desc, run, envFault, hosts>>

AppsFrame(validators, boot_nodes) ==
    Frame("deploy_apps", "load",
          [validators |-> validators, boot_nodes |-> boot_nodes, i |-> 1,
           name_to_ips_vals |-> EmptyDict, name_to_ips_boot |-> EmptyDict,
           resolved |-> {}, bootstrap_addrs_all |-> <<>>,
           bootstrap_map |-> EmptyDict, validator_addrs_map |-> EmptyDict])

main_app_skips_boot_nodes ==
    /\ At("main", "infra_done")
    /\ run.stage \in {"app", "all"}
    /\ Goto("boot_nodes_done", Loc)
    /\ UNCHANGED <<cloudVars, last, ledgerVars, desc, run, envFault, hosts, deployed>>

main_app_any_stage ==
    /\ At("main", "infra_done")
    /\ IF Loc.boot_nodes # <<>>
       THEN Call("boot_nodes_done", Loc, BootNodesFrame(Loc.boot_nodes))
       ELSE Goto("boot_nodes_done", Loc)
    /\ UNCHANGED <<cloudVars, last, ledgerVars, desc, run, envFault, hosts, deployed>>

\* if args.stage in ("app", "all"): if boot_nodes: deploy_boot_nodes(...)
main_app ==
    /\ At("main", "infra_done")
    /\ run.stage \in {"app", "all"}
    /\ IF Loc.boot_nodes # <<>>
       THEN Call("boot_nodes_done", Loc, BootNodesFrame(Loc.boot_nodes))
       ELSE Goto("boot_nodes_done", Loc)
    /\ UNCHANGED <<cloudVars, last, ledgerVars, desc, run, envFault, hosts, deployed>>

\* deploy_apps(provider, validators, boot_nodes)
main_app_deploy ==
    /\ At("main", "boot_nodes_done")
    /\ Call("apps_done", Loc, AppsFrame(Loc.validators, Loc.boot_nodes))
    /\ UNCHANGED <<cloudVars, last, ledgerVars, desc, run, envFault, hosts, deployed>>

main_app_return ==
    /\ At("main", "apps_done")
    /\ Return(None)
    /\ UNCHANGED <<cloudVars, last, ledgerVars, desc, run, envFault, hosts, deployed>>

-----------------------------------------------------------------------------
(* SpecApp: one process running the app stage against a provisioned        *)
(* project, over the ledgers an infra run, a partial run or a manual edit  *)
(* can have left.                                                          *)

RunningInstance(name, is_validator) ==
    [exists |-> TRUE, status |-> "RUNNING", tags |-> {VALIDATOR_TAG}, nic |-> TRUE,
     ac |-> TRUE, natIP |-> TRUE,
     disks |-> IF is_validator THEN {DiskName(name)} ELSE {}]

ProvisionedCloud ==
    [instances |-> [n \in NodeNames |-> RunningInstance(n, n \notin {"b1", "b2"})],
     disks |-> [d \in DiskNames |-> IF d \in {"b1-db", "b2-db"} THEN 0 ELSE DefaultDiskGb],
     firewalls |-> [r \in {SSH_RULE, P2P_RULE} |->
                      IF r = SSH_RULE THEN SSHRule
                      ELSE P2PRule(AllowedOf(
                               derive_p2p_ports_from_listen_addresses(<<B1, B2, V1, V2>>)))]]

\* How the ledger holds the IPs of one node: both ("full"), the keys with
\* null ("null"), no keys ("missing"), or no record at all ("absent").
IpStates == {"full", "null", "missing", "absent"}

LedgerRecord(node, how) ==
    LET base == [k \in (DOMAIN node) \ {"listen_addresses"} |-> node[k]] IN
    CASE how = "full" ->
            Put(Put(base, "external_ip", ExtIP(node.node_name)),
                "internal_ip", IntIP(node.node_name))
      [] how = "null" -> Put(Put(base, "external_ip", None), "internal_ip", None)
      [] OTHER -> base

\* the records of nodes, the node named lacking held as how says
LedgerRecords(nodes, lacking, how) ==
    LET kept == SelectSeq(nodes, LAMBDA n : ~(n.node_name = lacking /\ how = "absent"))
    IN [name \in {kept[i].node_name : i \in DOMAIN kept} |->
          LET n == CHOOSE x \in Range(kept) : x.node_name = name IN
          LedgerRecord(n, IF name = lacking THEN how ELSE "full")]

LedgerOf(d, lacking, how) ==
    File([metadata |-> [project |-> "project", zone |-> "zone",
                        generated_at |-> IsoFormat(0), version |-> 1],
          boot_nodes |-> LedgerRecords(d.boot_nodes, lacking, how),
          validators |-> LedgerRecords(d.validators, lacking, how)])

NamesOf(nodes) == {nodes[i].node_name : i \in DOMAIN nodes}

Ledgers(d) ==
    {NoFile} \cup {LedgerOf(d, lacking, how) :
                     lacking \in NamesOf(d.boot_nodes \o d.validators),
                     how \in IpStates}

\* the descriptors of the app stage: those of the infra runs, and two boot
\* nodes with one validator
TwoBoot == [boot_nodes |-> <<B1, B2>>, validators |-> <<V1>>, teams |-> AllTeams]

AppDescs == Descs \cup {TwoBoot}

InitApp ==
    /\ ret = NoRet
    /\ exc = NoExc
    /\ metadata = TRUE
    /\ op = NoOp
    /\ calls = <<>>
    /\ last = NoCall
    /\ saves = 0
    /\ envFault = FALSE
    /\ hosts = [n \in NodeNames |-> NoHost]
    /\ deployed = <<>>
    /\ instances = ProvisionedCloud.instances
    /\ disks = ProvisionedCloud.disks
    /\ firewalls = ProvisionedCloud.firewalls
    /\ desc \in AppDescs
    /\ ledger \in Ledgers(desc)
    /\ ledger0 = ledger
    /\ run = [n |-> 1, stage |-> "app", env |-> FullEnv]
    /\ stack = <<Frame("main", "start", [x |-> None])>>

NextApp ==
    \/ main_start
    \/ provider_init
    \/ ensure_firewall_rule
    \/ ensure_firewall_rule_return
    \/ provider_init_return
    \/ main_constructed
    \/ main_app
    \/ main_app_deploy
    \/ main_app_return
    \/ deploy_boot_nodes
    \/ deploy_boot_nodes_fallback
    \/ deploy_boot_nodes_external
    \/ deploy_boot_nodes_internal
    \/ deploy_boot_nodes_deploy
    \/ deploy_boot_nodes_deployed
    \/ deploy_apps
    \/ deploy_apps_val_fallback
    \/ deploy_apps_val_resolved
    \/ deploy_apps_boot_fallback
    \/ deploy_apps_boot_resolved
    \/ deploy_apps_build
    \/ deploy_apps_deploy
    \/ deploy_apps_deployed
    \/ get_instance_ip
    \/ get_instance_ip_access
    \/ get_instance_ip_natip
    \/ get_instance_internal_ip
    \/ wait_for_ssh
    \/ ssh_connect
    \/ deploy_boot_node
    \/ deploy_boot_node_wait
    \/ deploy_boot_node_connect
    \/ deploy_boot_node_remote
    \/ deploy_validator
    \/ deploy_validator_wait
    \/ deploy_validator_connect
    \/ deploy_validator_remote

SpecApp == InitApp /\ [][NextApp]_vars

-----------------------------------------------------------------------------
(* Properties of the infra stage, checked under Spec.                      *)

CreateApis == {"instances.insert", "disks.insert", "firewalls.insert",
               "instances.attachDisk"}

InsertApis == {"instances.insert", "disks.insert", "firewalls.insert"}

EnsureCalls == {"create_instance", "create_volume", "attach_volume",
                "ensure_p2p_firewall", "_ensure_firewall_rule"}

Done == stack = <<>> /\ run.n > 0

\* the calls of api on target, and those among them with outcome result
CallsOf(api, target) ==
    {i \in DOMAIN calls : calls[i].api = api /\ calls[i].target = target}

CallsEnded(api, target, result) ==
    {i \in CallsOf(api, target) : calls[i].result = result}

\* every ensure call returns the identity that follows from its argument
ReturnsIdentity ==
    /\ last.fn = "create_instance" => last.val = [name |-> last.arg]
    /\ last.fn = "create_volume" => last.val = DiskName(last.arg)

\* C1 as stated: an ensure call entered while its resource exists issues no
\* mutating cloud call at all and returns the resource's identity.
C1_NoMutationAtAll ==
    /\ \A i \in DOMAIN calls : calls[i].api \in CreateApis => ~calls[i].present
    /\ (last.fn \in EnsureCalls /\ last.existed) => last.issued = <<>>
    /\ ReturnsIdentity

\* C1, amended: an ensure call (create_instance, create_volume,
\* attach_volume, ensure_p2p_firewall, _ensure_firewall_rule) entered while
\* its resource exists issues no insert and no attach; the only mutating
\* call it may issue is the one setTags of create_instance, and that only
\* on an instance that lacks the validator tag; it returns the same identity
\* as a creating call (the instance name, the disk name <node_name>-db).
C1_IdempotentEnsure ==
    /\ \A i \in DOMAIN calls :
         calls[i].api \in CreateApis \cup {"instances.setTags"} => ~calls[i].present
    /\ (last.fn \in EnsureCalls /\ last.existed) =>
         \/ last.issued = <<>>
         \/ last.fn = "create_instance" /\ last.issued = <<"instances.setTags">>
    /\ ReturnsIdentity

\* An attach_volume that found the attachment an earlier call had made.
C1_Witness ==
    /\ last.fn = "attach_volume"
    /\ last.existed
    /\ last.issued = <<>>
    /\ CallsEnded("instances.attachDisk", last.arg, "ok") # {}

\* C2: whatever run aborted, and wherever, a later run of the infra stage
\* over the same descriptors in which the environment fails nothing
\* completes and saves the ledger; over all runs no insert is issued for an
\* instance, disk or rule name that exists, and a name is the target of a
\* second insert only if every earlier insert of it ended in an operation
\* error and created nothing: no name is inserted more than once.
C2_Rerunnable ==
    /\ (Done /\ run.n >= 2 /\ ~envFault) =>
         (exc.type = "none" /\ saves = 1 /\ ledger.present)
    /\ \A i \in DOMAIN calls : calls[i].api \in InsertApis => ~calls[i].present
    /\ \A i, j \in DOMAIN calls :
         (/\ i < j
          /\ calls[i].api \in InsertApis
          /\ calls[i].api = calls[j].api
          /\ calls[i].target = calls[j].target) => calls[i].result = "error"

\* A second run that completed and saved the ledger after a run that an
\* operation error had aborted.
C2_Witness ==
    /\ Done
    /\ run.n = 2
    /\ ~envFault
    /\ saves = 1
    /\ \E i \in DOMAIN calls : calls[i].result = "error"

\* the ledger file holds a record with both IPs for every described node
CompleteFor(kind, nodes) ==
    \A i \in DOMAIN nodes :
        /\ nodes[i].node_name \in DOMAIN ledger.data[kind]
        /\ {"external_ip", "internal_ip"} \subseteq
               DOMAIN ledger.data[kind][nodes[i].node_name]

\* every create, attach and firewall ensure of the stage has taken effect
AllProvisioned ==
    /\ \A i \in DOMAIN desc.boot_nodes :
         instances[desc.boot_nodes[i].node_name].exists
    /\ \A i \in DOMAIN desc.validators :
         LET name == desc.validators[i].node_name IN
         /\ instances[name].exists
         /\ disks[DiskName(name)] # 0
         /\ DiskName(name) \in instances[name].disks
    /\ firewalls[P2P_RULE].exists

\* C3: a process of the infra stage calls save_state at most once, and only
\* after every create/attach, the firewall ensure and the IP resolution of
\* every node returned; a process that raised never called it, and the
\* ledger file is then what it was when the process started.
C3_SaveOnceAtEnd ==
    /\ saves <= 1
    /\ saves = 1 =>
         /\ ledger.present
         /\ CompleteFor("boot_nodes", desc.boot_nodes)
         /\ CompleteFor("validators", desc.validators)
         /\ AllProvisioned
         /\ ~Running("provision_infra")
    /\ saves = 0 => ledger = ledger0
    /\ exc.type # "none" => saves = 0

\* A run that raised while resolving IPs, the ledger of an earlier run
\* being on disk.
C3_Witness ==
    /\ exc.type = "RuntimeError"
    /\ \E i \in DOMAIN exc.trace : exc.trace[i] = "_collect_ips"
    /\ ledger.present
    /\ ledger = ledger0

WaitFns == {"_wait_for_operation", "_wait_for_global_operation"}

\* C9: the operation waits return only once a poll has seen DONE without
\* error: while the operation is not DONE the process is inside the wait,
\* and once a poll saw DONE with an error the process has ended with the
\* exception raised in the wait, on whose traceback the calling operation
\* is, which therefore never returned.
C9_WaitSurfacesError ==
    /\ op.status # "DONE" => (Depth > 0 /\ Top.fn \in WaitFns)
    /\ (op.status = "DONE" /\ op.error) =>
         /\ stack = <<>>
         /\ exc.type = "Exception"
         /\ Len(exc.trace) >= 2
         /\ exc.trace[Len(exc.trace)] \in WaitFns
         /\ exc.trace[Len(exc.trace) - 1] \in
                EnsureCalls \cup {"get_instance_ip"}

\* A poll saw the instance insert DONE with an error and the wait raised.
C9_Witness ==
    /\ op.api = "instances.insert"
    /\ op.status = "DONE"
    /\ op.error
    /\ exc.type = "Exception"

\* the mutating calls get_instance_ip may issue, in the order it issues them
Escalations ==
    {<<>>, <<"instances.start">>, <<"instances.addAccessConfig">>,
     <<"instances.start", "instances.addAccessConfig">>}

\* C10: get_instance_ip starts the instance and waits until a read shows
\* it RUNNING, then adds an access config only if the first interface has
\* none, then polls for the NAT address: it issues start only on an
\* instance not RUNNING and addAccessConfig only on an interface without
\* one, in that order; it is past the start wait only with the instance
\* read RUNNING; it returns only the natIP read from a RUNNING instance;
\* its timeout errors are raised once the 180 s deadline of the wait they
\* belong to has passed, not before, and within one poll after it.
C10_Escalation ==
    /\ \A i \in DOMAIN calls :
         calls[i].api \in {"instances.start", "instances.addAccessConfig"} =>
             ~calls[i].present
    /\ \A i \in 1..Depth :
         (stack[i].fn = "get_instance_ip" /\ stack[i].pc \in {"access", "natip"}) =>
             instances[stack[i].loc.name].status = "RUNNING"
    /\ \A i \in 1..Depth :
         /\ (stack[i].fn = "get_instance_ip" /\ stack[i].pc = "await_running") =>
                stack[i].loc.elapsed < StartDeadline + PollCost
         /\ (stack[i].fn = "get_instance_ip" /\ stack[i].pc = "natip") =>
                stack[i].loc.elapsed < NatDeadline + PollCost
    /\ last.fn = "get_instance_ip" =>
         /\ last.val = ExtIP(last.arg)
         /\ last.issued \in Escalations
         /\ instances[last.arg].status = "RUNNING"
         /\ instances[last.arg].ac
         /\ instances[last.arg].natIP
    /\ (exc.type = "RuntimeError"
          /\ exc.msg = "did not reach RUNNING state in time") =>
             exc.loc.elapsed >= StartDeadline
    /\ (exc.type = "RuntimeError"
          /\ exc.msg = "failed to obtain public IP within timeout") =>
             exc.loc.elapsed >= NatDeadline

\* get_instance_ip returned the address after starting the instance and
\* adding the access config it lacked.
C10_Witness ==
    /\ last.fn = "get_instance_ip"
    /\ last.issued = <<"instances.start", "instances.addAccessConfig">>
    /\ last.val = ExtIP("v1")

-----------------------------------------------------------------------------
(* Properties of the app stage, checked under SpecApp.                     *)

Described == NamesOf(desc.boot_nodes \o desc.validators)

KindOf(name) == IF name \in NamesOf(desc.boot_nodes) THEN "boot_nodes" ELSE "validators"

\* the ledger file holds no usable IP pair for name: no record, or a record
\* whose external_ip or internal_ip is missing or null
LacksIp(name) ==
    \/ ~ledger.present
    \/ name \notin DOMAIN ledger.data[KindOf(name)]
    \/ Get(ledger.data[KindOf(name)][name], "external_ip") = None
    \/ Get(ledger.data[KindOf(name)][name], "internal_ip") = None

Lacking(names) == {n \in names : LacksIp(n)}

\* the value the topology builders need for name: both live addresses
LiveIps(name) == IpsDict(ExtIP(name), IntIP(name))

\* the frame of function f on the stack
FrameOf(f) == stack[CHOOSE i \in 1..Depth : stack[i].fn = f]

\* C4: with a ledger in which exactly one described node lacks an IP, once
\* the fallback loops of deploy_boot_nodes and deploy_apps are through they
\* have resolved live exactly that node and no node whose record is full,
\* and the maps the topology builders read hold the live addresses of that
\* node.
C4_FallbackForLackingNode ==
    (ledger.present /\ Cardinality(Lacking(Described)) = 1) =>
        /\ (Running("deploy_boot_nodes")
              /\ FrameOf("deploy_boot_nodes").pc \in {"deploy", "deployed"}) =>
             LET l == FrameOf("deploy_boot_nodes").loc IN
             /\ l.resolved = Lacking(NamesOf(desc.boot_nodes))
             /\ \A n \in l.resolved : l.name_to_ips[n] = LiveIps(n)
        /\ (Running("deploy_apps")
              /\ FrameOf("deploy_apps").pc \in {"build", "deploy", "deployed"}) =>
             LET l == FrameOf("deploy_apps").loc IN
             /\ l.resolved = Lacking(Described)
             /\ \A n \in l.resolved \cap NamesOf(desc.validators) :
                  l.name_to_ips_vals[n] = LiveIps(n)
             /\ \A n \in l.resolved \cap NamesOf(desc.boot_nodes) :
                  l.name_to_ips_boot[n] = LiveIps(n)

\* The fallback of deploy_apps resolved the one validator without a ledger
\* record and the topology build raised on the value it stored.
C4_Witness ==
    /\ ledger.present
    /\ Lacking(Described) = {"v2"}
    /\ exc.type = "AttributeError"
    /\ exc.loc.resolved = {"v2"}

\* C5: an app stage started without a ledger file, every described
\* instance existing and resolvable and the environment failing nothing,
\* ends without error having deployed every boot node and every validator.
C5_AppWithoutLedger ==
    (~ledger.present /\ stack = <<>> /\ ~envFault) =>
        /\ exc.type = "none"
        /\ Range(deployed) = Described

\* Without a ledger and without boot nodes the topology build among the
\* validators raised before any validator was deployed.
C5_Witness ==
    /\ ~ledger.present
    /\ desc.boot_nodes = <<>>
    /\ ~envFault
    /\ exc.type = "AttributeError"
    /\ deployed = <<>>

\* the names of the remote actions in a trace
StepsOf(trace) == [i \in DOMAIN trace |-> trace[i].step]

IsPrefix(s, t) == Len(s) <= Len(t) /\ s = SubSeq(t, 1, Len(s))

ValidatorProtocol ==
    <<"wait_ssh", "connect", "install", "upload", "permfix", "settle", "mkdir",
      "mount", "chown", "stop_rm", "pull", "run">>

BootNodeProtocol ==
    <<"wait_ssh", "connect", "install", "upload", "permfix", "mkdir_data",
      "stop_rm", "pull", "run">>

\* the validator order with no disk settle and no mount
SameOrderSansSettleMount ==
    SelectSeq(ValidatorProtocol, LAMBDA x : x \notin {"settle", "mount"})

\* the validator order with none of its volume steps
SansVolumeSteps ==
    SelectSeq(ValidatorProtocol,
              LAMBDA x : x \notin {"settle", "mkdir", "mount", "chown"})

\* the remote actions of every validator are at all times a prefix of
\* ValidatorProtocol, and the whole of it when its deployment returned
ValidatorOrder ==
    \A n \in NamesOf(desc.validators) :
        /\ IsPrefix(StepsOf(hosts[n].trace), ValidatorProtocol)
        /\ n \in Range(deployed) => StepsOf(hosts[n].trace) = ValidatorProtocol

\* C6 as stated: the remote actions of a deploy_validator are, in this
\* order and one after the other: SSH port wait, SSH connect, runtime
\* install, identity upload, permission fix, disk settle, mkdir of the
\* mount point, mount, chown, stop/remove of the old container, image
\* pull, container run; those of a deploy_boot_node are the same sequence
\* with no disk settle and no mount, the mkdir of the mount point and the
\* chown kept.
C6_SameOrderSansSettleMount ==
    /\ ValidatorOrder
    /\ \A n \in NamesOf(desc.boot_nodes) :
         /\ IsPrefix(StepsOf(hosts[n].trace), SameOrderSansSettleMount)
         /\ n \in Range(deployed) =>
               StepsOf(hosts[n].trace) = SameOrderSansSettleMount

\* C6: the remote actions of a deploy_validator are, in this order and
\* one after the other: SSH port wait, SSH connect, runtime install,
\* identity upload, permission fix, disk settle, mkdir of the mount point,
\* mount, chown, stop/remove of the old container, image pull, container
\* run; a deployment that returned performed all of them.  Those of a
\* deploy_boot_node keep that order with none of the four volume steps
\* (disk settle, mkdir of the mount point, mount, chown) and with one
\* mkdir of the host data directory in their place; a boot node
\* deployment that returned performed all of its nine.
C6_ProtocolOrder ==
    /\ ValidatorOrder
    /\ \A n \in NamesOf(desc.boot_nodes) :
         /\ IsPrefix(StepsOf(hosts[n].trace), BootNodeProtocol)
         /\ n \in Range(deployed) => StepsOf(hosts[n].trace) = BootNodeProtocol
    /\ BootNodeProtocol =
         SubSeq(SansVolumeSteps, 1, 5) \o <<"mkdir_data">>
           \o SubSeq(SansVolumeSteps, 6, Len(SansVolumeSteps))

\* A boot node and the validator after it were deployed completely, the
\* boot node with the mkdir of its data directory and without chown.
C6_Witness ==
    /\ {"b1", "v1"} \subseteq Range(deployed)
    /\ Len(hosts["v1"].trace) = 12
    /\ Len(hosts["b1"].trace) = 9
    /\ hosts["b1"].trace[6].step = "mkdir_data"
    /\ \A i \in DOMAIN hosts["b1"].trace : hosts["b1"].trace[i].step # "chown"

\* C7: a protocol step that failed is the last remote action of that
\* node's deployment: no later step is executed, the container is not run.
C7_FailedStepAborts ==
    \A n \in NodeNames : \A i \in DOMAIN hosts[n].trace :
        ~hosts[n].trace[i].ok => i = Len(hosts[n].trace)

\* The image pull on v1 exited non-zero and the container was run after it.
C7_Witness ==
    LET t == hosts["v1"].trace IN
    /\ Len(t) = 12
    /\ ~t[11].ok
    /\ t[12].step = "run"
    /\ "v1" \in hosts["v1"].containers

DeployFns == {"deploy_boot_node", "deploy_validator"}

\* C8: when the app stage ended because the deployment of one node raised,
\* every other described node has been deployed.
C8_OthersStillDeployed ==
    (stack = <<>> /\ exc.type # "none"
       /\ \E i \in DOMAIN exc.trace : exc.trace[i] \in DeployFns) =>
        Cardinality(Described \ Range(deployed)) <= 1

\* The deployment of v1 raised (its disk did not settle) and the process
\* ended with v2 never deployed.
C8_Witness ==
    /\ stack = <<>>
    /\ exc.type = "RuntimeError"
    /\ exc.msg = "disk did not settle"
    /\ exc.loc.node.node_name = "v1"
    /\ "v2" \in Described \ Range(deployed)

-----------------------------------------------------------------------------
(* Further properties of the infra stage, checked under Spec.              *)

\* C11: create_instance patches an existing instance that lacks the
\* validator tag in place: a setTags is issued only for an instance without
\* the tag, its tag set is the instance's tags plus the validator tag, a
\* create_instance that found its instance issued that one setTags or
\* nothing and no insert, and one that found none issued one insert; after
\* a create_instance returned the named instance exists and carries the
\* validator tag.
C11_TagRepair ==
    /\ \A i \in DOMAIN calls :
         calls[i].api = "instances.setTags" => ~calls[i].present
    /\ op.api = "instances.setTags" =>
         op.body = instances[op.target].tags \cup {VALIDATOR_TAG}
    /\ last.fn = "create_instance" =>
         /\ last.issued \in
              (IF last.existed THEN {<<>>, <<"instances.setTags">>}
               ELSE {<<"instances.insert">>})
         /\ instances[last.arg].exists
         /\ VALIDATOR_TAG \in instances[last.arg].tags

\* create_instance returned after patching the tags of the existing v1,
\* which kept the tag it had.
C11_Witness ==
    /\ last.fn = "create_instance"
    /\ last.arg = "v1"
    /\ last.issued = <<"instances.setTags">>
    /\ instances["v1"].tags = {"http", VALIDATOR_TAG}

-----------------------------------------------------------------------------
(* SpecEdits: runs of the infra stage between which the descriptor files   *)
(* (validators, boot nodes) are edited.                                    *)

V1Only == [boot_nodes |-> <<>>, validators |-> <<V1>>, teams |-> AllTeams]
B1V1 == [boot_nodes |-> <<B1>>, validators |-> <<V1>>, teams |-> AllTeams]

EditedDescs == {V1Only, B1V1}

\* A file validators/<team>/validator_0x*.json: the JSON text of a
\* validator, or a text json.load raises on.
ValidatorFile(validator, loads) == [validator |-> validator, loads |-> loads]

\* the contents the validators directory is given between two processes
ValidatorDirs ==
    SUBSET {ValidatorFile(V1, TRUE), ValidatorFile(V2, TRUE), ValidatorFile(V2, FALSE)}

\* int(v["address"], 16)
AddressValue(address) ==
    CASE address = "0xA1" -> 161
      [] address = "0xA2" -> 162
      [] address = "0xA4" -> 164
      [] address = "0xA9" -> 169

\* merged.sort(key=lambda v: int(v["address"], 16)) over the validators of
\* the files that load
merged(files) ==
    LET loaded == {f.validator : f \in {g \in files : g.loads}}
    IN CHOOSE seq \in [1..Cardinality(loaded) -> loaded] :
          /\ Range(seq) = loaded
          /\ \A i, j \in DOMAIN seq :
                i < j => AddressValue(seq[i].address) <= AddressValue(seq[j].address)

\* python tools/merge_validators.py, run between two processes: main()
\* writes network-config/validators.json from the validator files found
merge_validators_main ==
    /\ stack = <<>>
    /\ \E files \in ValidatorDirs :
         desc' = [desc EXCEPT !.validators = merged(files)]
    /\ UNCHANGED <<stack, ret, exc, cloudVars, last, ledgerVars, run, envFault,
                   hosts, deployed>>

\* boot_nodes.json as the next process will read it, edited by hand after
\* the first process, then python tools/deploynet.py --stage infra
EditAndStart ==
    /\ stack = <<>>
    /\ run.n < MaxRuns
    /\ desc' \in (IF run.n = 0 THEN {desc}
                 ELSE {[desc EXCEPT !.boot_nodes = boot_nodes] :
                         boot_nodes \in {<<>>, <<B1>>}})
    /\ run' = [n |-> run.n + 1, stage |-> "infra", env |-> FullEnv]
    /\ stack' = <<Frame("main", "start", [x |-> None])>>
    /\ ret' = NoRet
    /\ exc' = NoExc
    /\ last' = NoCall
    /\ ledger0' = ledger
    /\ saves' = 0
    /\ envFault' = FALSE
    /\ deployed' = <<>>
    /\ op' = NoOp
    /\ UNCHANGED <<instances, disks, firewalls, metadata, calls, ledger, hosts>>

InitEdits ==
    /\ InitCommon
    /\ instances = EmptyCloud.instances
    /\ disks = EmptyCloud.disks
    /\ firewalls = EmptyCloud.firewalls
    /\ ledger = NoFile
    /\ desc \in EditedDescs

NextEdits ==
    \/ EditAndStart
    \/ Provisioning
    \/ main_infra_done_return

SpecEdits == InitEdits /\ [][NextEdits]_vars

\* SpecMerge: two processes of the infra stage, validators.json rewritten
\* by tools/merge_validators.py and boot_nodes.json edited by hand between
\* them.
StartTwice == run.n <= 1 /\ EditAndStart

MergeBetween == run.n = 1 /\ merge_validators_main

NextMerge ==
    \/ MergeBetween
    \/ StartTwice
    \/ Provisioning
    \/ main_infra_done_return

SpecMerge == InitEdits /\ [][NextMerge]_vars

\* the "allowed" list the current descriptors ask for
AllowedNow ==
    AllowedOf(derive_p2p_ports_from_listen_addresses(desc.boot_nodes \o desc.validators))

RuleApis == {"firewalls.insert", "firewalls.patch", "firewalls.update",
             "firewalls.delete"}

\* C12: over runs with changing descriptors, from the step at which the
\* rule allow-validator-p2p exists no step changes it (its allowed list and
\* tags stay what the creating insert wrote) and no step issues an insert,
\* patch, update or delete of it, whatever port set is passed.
C12_RuleFrozen ==
    [][firewalls[P2P_RULE].exists =>
         /\ firewalls'[P2P_RULE] = firewalls[P2P_RULE]
         /\ \A i \in DOMAIN calls' :
              (calls'[i].api \in RuleApis /\ calls'[i].target = P2P_RULE)
                  => i \in DOMAIN calls]_vars

\* ensure_p2p_firewall returned in a run whose descriptors ask for another
\* port set than the existing rule allows
C12_Witness ==
    /\ last.fn = "ensure_p2p_firewall"
    /\ last.existed
    /\ last.issued = <<>>
    /\ firewalls[P2P_RULE].exists
    /\ firewalls[P2P_RULE].allowed # AllowedNow
    /\ AllowedNow # <<>>

\* the ledger record provision_infra writes for a described node: the
\* descriptor's identity fields and the two addresses read from the cloud
WrittenFor(node, fields, r) ==
    /\ DOMAIN r = fields \cup {"external_ip", "internal_ip"}
    /\ \A k \in fields : r[k] = node[k]
    /\ r.external_ip \in {None, ExtIP(node.node_name)}
    /\ r.internal_ip \in {None, IntIP(node.node_name)}

\* C13: when provision_infra has returned to main, the process has saved a
\* ledger whose boot_nodes and validators maps have as keys exactly the
\* node_names of the descriptor lists, each record made of that
\* descriptor's fields and the addresses read from the cloud, and the
\* metadata written fresh: nothing of the file the previous run left
\* survives, in particular no record of a node that is no longer described.
C13_LedgerResync ==
    (At("main", "infra_done") /\ exc.type = "none") =>
        /\ ledger.present
        /\ saves = 1
        /\ DOMAIN ledger.data = {"metadata", "boot_nodes", "validators"}
        /\ ledger0.present =>
              ledger.data.metadata.generated_at # ledger0.data.metadata.generated_at
        /\ DOMAIN ledger.data.boot_nodes = NamesOf(desc.boot_nodes)
        /\ DOMAIN ledger.data.validators = NamesOf(desc.validators)
        /\ \A i \in DOMAIN desc.boot_nodes :
             WrittenFor(desc.boot_nodes[i], {"node_name", "team", "peer_id"},
                        ledger.data.boot_nodes[desc.boot_nodes[i].node_name])
        /\ \A i \in DOMAIN desc.validators :
             WrittenFor(desc.validators[i], {"node_name", "team", "address", "peer_id"},
                        ledger.data.validators[desc.validators[i].node_name])

\* A process over the validator alone returned after one that had saved the
\* boot node's record: the record is gone from the file.
C13_Witness ==
    /\ At("main", "infra_done")
    /\ exc.type = "none"
    /\ run.n = 2
    /\ ledger0.present
    /\ "b1" \in DOMAIN ledger0.data.boot_nodes
    /\ ledger.present
    /\ "b1" \notin DOMAIN ledger.data.boot_nodes
    /\ instances["b1"].exists

\* After merge_validators had found v2's file and no longer v1's, the
\* second process saved v2's record and not v1's, whose instance still
\* exists.
C13_MergedWitness ==
    /\ At("main", "infra_done")
    /\ exc.type = "none"
    /\ run.n = 2
    /\ ledger0.present
    /\ DOMAIN ledger0.data.validators = {"v1"}
    /\ DOMAIN ledger.data.validators = {"v2"}
    /\ instances["v1"].exists
    /\ instances["v2"].exists

\* After the validator files had been removed, the second process saved a
\* ledger without validators; after v2's had been added, one with v1 and v2
\* in the order of their addresses.
C13_EmptiedWitness ==
    /\ At("main", "infra_done")
    /\ exc.type = "none"
    /\ run.n = 2
    /\ ledger0.present
    /\ DOMAIN ledger0.data.validators = {"v1"}
    /\ desc.validators = <<>>
    /\ DOMAIN ledger.data.validators = {}

C13_AddedWitness ==
    /\ At("main", "infra_done")
    /\ exc.type = "none"
    /\ run.n = 2
    /\ desc.validators = <<V1, V2>>
    /\ DOMAIN ledger.data.validators = {"v1", "v2"}
    /\ \E i \in DOMAIN calls : calls[i].api = "disks.insert" /\ calls[i].target = "v2-db"

-----------------------------------------------------------------------------
(* Further properties of the app stage, checked under SpecApp.             *)

\* the frames of function f on the stack
FramesOf(f) == {stack[i] : i \in {k \in DOMAIN stack : stack[k].fn = f}}

\* the deployment of some validator has begun
ValidatorBegun ==
    \/ FramesOf("deploy_validator") # {}
    \/ \E n \in NamesOf(desc.validators) :
         n \in Range(deployed) \/ hosts[n].trace # <<>>

\* the multiaddr a is the address of node m: m's peer id after /p2p/, and
\* m's internal IP where m's first listen address has a wildcard or loopback
BuiltFrom(a, m) ==
    LET n == Len(a.parts) IN
    /\ n >= 7
    /\ a.parts[n] = m.peer_id
    /\ a.parts[n - 1] = "p2p"
    /\ a.parts[3] = IntIP(m.node_name)
    /\ a.parts[4] = m.listen_addresses[1].parts[4]
    /\ a.parts[5] = m.listen_addresses[1].parts[5]

\* C14: when boot nodes are described, the deployment of a validator begins
\* only after deploy_boot_node has returned for every boot node, in list
\* order; and the peer_addrs a deploy_boot_node is called with holds only
\* addresses of the other boot nodes: none of a validator, none of the boot
\* node being deployed.
C14_BootNodesFirst ==
    /\ (desc.boot_nodes # <<>> /\ ValidatorBegun) =>
         /\ Len(deployed) >= Len(desc.boot_nodes)
         /\ \A i \in DOMAIN desc.boot_nodes :
              deployed[i] = desc.boot_nodes[i].node_name
    /\ \A f \in FramesOf("deploy_boot_node") :
         /\ f.loc.node \in Range(desc.boot_nodes)
         /\ f.loc.validator_addrs = <<>>
         /\ \A a \in Range(f.loc.peer_addrs) :
              \E m \in Range(desc.boot_nodes) :
                  m.node_name # f.loc.node.node_name /\ BuiltFrom(a, m)

\* The first validator is being deployed after both boot nodes were, the
\* second of them with the first as its only peer.
C14_Witness ==
    /\ desc.boot_nodes = <<B1, B2>>
    /\ deployed = <<"b1", "b2">>
    /\ FramesOf("deploy_validator") # {}
    /\ hosts["v1"].trace # <<>>
    /\ Len(hosts["b2"].trace) = Len(BootNodeProtocol)

\* the multiaddr under which node m is reached by its peers
AddrOf(m) ==
    MA(<<"", "ip4", IntIP(m.node_name), m.listen_addresses[1].parts[4],
         m.listen_addresses[1].parts[5], "p2p", m.peer_id>>)

\* the addresses of those of nodes, in list order, that are not named
\* except and whose ledger record holds an internal IP
AddrsOf(nodes, except) ==
    LET from == SelectSeq(nodes, LAMBDA m : m.node_name # except /\ ~LacksIp(m.node_name))
    IN [i \in 1..Len(from) |-> AddrOf(from[i])]

\* C15: every deploy_validator is called, when boot nodes are described,
\* with the addresses of all boot nodes as its bootstrap string, the same
\* for every validator; when none is described, with the addresses of the
\* other validators; and in both cases with the "address" fields of all
\* other validators, in list order, as validator_addrs, its own address not
\* among them.
C15_ValidatorWiring ==
    \A f \in FramesOf("deploy_validator") :
        LET v == f.loc.node IN
        /\ v \in Range(desc.validators)
        /\ f.loc.peer_addrs =
              (IF desc.boot_nodes # <<>> THEN AddrsOf(desc.boot_nodes, None)
               ELSE AddrsOf(desc.validators, v.node_name))
        /\ f.loc.validator_addrs =
              LET others == SelectSeq(desc.validators,
                                      LAMBDA ov : ov.node_name # v.node_name)
              IN [i \in 1..Len(others) |-> others[i].address]
        /\ v.address \notin Range(f.loc.validator_addrs)

\* Without boot nodes, the second validator is being deployed with the
\* first as its bootstrap peer and as its only other validator.
C15_Witness ==
    /\ desc.boot_nodes = <<>>
    /\ deployed = <<"v1">>
    /\ \E f \in FramesOf("deploy_validator") :
         /\ f.loc.node = V2
         /\ f.loc.peer_addrs = <<AddrOf(V1)>>
         /\ f.loc.validator_addrs = <<"0xA1">>

-----------------------------------------------------------------------------
(* SpecStages: one process, started with any --stage and any environment,  *)
(* against an empty project or a provisioned one, with or without its      *)
(* ledger file.                                                            *)

Stages == {"infra", "app", "all"}

InitStages ==
    /\ ret = NoRet
    /\ exc = NoExc
    /\ op = NoOp
    /\ calls = <<>>
    /\ last = NoCall
    /\ saves = 0
    /\ envFault = FALSE
    /\ hosts = [n \in NodeNames |-> NoHost]
    /\ deployed = <<>>
    /\ desc = B1V1
    /\ \/ /\ instances = EmptyCloud.instances
          /\ disks = EmptyCloud.disks
          /\ firewalls = EmptyCloud.firewalls
          /\ metadata = FALSE
          /\ ledger = NoFile
       \/ /\ instances = ProvisionedCloud.instances
          /\ disks = ProvisionedCloud.disks
          /\ firewalls = ProvisionedCloud.firewalls
          /\ metadata = TRUE
          /\ ledger \in {NoFile, LedgerOf(desc, None, "full")}
    /\ ledger0 = ledger
    /\ \E stage \in Stages, env \in Envs :
         run = [n |-> 1, stage |-> stage, env |-> env]
    /\ stack = <<Frame("main", "start", [x |-> None])>>

Deploying ==
    \/ main_app
    \/ main_app_deploy
    \/ main_app_return
    \/ deploy_boot_nodes
    \/ deploy_boot_nodes_fallback
    \/ deploy_boot_nodes_external
    \/ deploy_boot_nodes_internal
    \/ deploy_boot_nodes_deploy
    \/ deploy_boot_nodes_deployed
    \/ deploy_apps
    \/ deploy_apps_val_fallback
    \/ deploy_apps_val_resolved
    \/ deploy_apps_boot_fallback
    \/ deploy_apps_boot_resolved
    \/ deploy_apps_build
    \/ deploy_apps_deploy
    \/ deploy_apps_deployed
    \/ wait_for_ssh
    \/ ssh_connect
    \/ deploy_boot_node
    \/ deploy_boot_node_wait
    \/ deploy_boot_node_connect
    \/ deploy_boot_node_remote
    \/ deploy_validator
    \/ deploy_validator_wait
    \/ deploy_validator_connect
    \/ deploy_validator_remote

NextStages ==
    \/ Provisioning
    \/ main_infra_done_return
    \/ Deploying

SpecStages == InitStages /\ [][NextStages]_vars

InfraFns == {"provision_infra", "create_instance", "create_volume", "attach_volume",
             "ensure_p2p_firewall", "_collect_ips"}

AppFns == {"deploy_boot_nodes", "deploy_apps", "deploy_boot_node", "deploy_validator"}

OnStack(fns) == \E i \in DOMAIN stack : stack[i].fn \in fns

\* the cloud calls that only the infra stage issues
InfraCall(c) ==
    \/ c.api \in {"instances.insert", "instances.setTags", "disks.insert",
                  "instances.attachDisk"}
    \/ c.api = "firewalls.insert" /\ c.target = P2P_RULE

\* no remote action was performed and no deployment function was entered
NothingDeployed ==
    /\ ~OnStack(AppFns)
    /\ deployed = <<>>
    /\ \A n \in NodeNames : hosts[n] = NoHost

\* C16: a process with --stage infra enters no deployment function and
\* performs no remote action; one with --stage app enters none of
\* provision_infra, create_instance, create_volume, attach_volume,
\* ensure_p2p_firewall, issues none of their cloud calls and never saves the
\* ledger; one with --stage all enters the app stage only after
\* provision_infra returned, with every resource ensured and the ledger
\* saved once, and if provision_infra raised nothing is deployed.
C16_StageSelection ==
    /\ run.stage = "infra" => NothingDeployed
    /\ run.stage = "app" =>
         /\ ~OnStack(InfraFns)
         /\ \A i \in DOMAIN calls : ~InfraCall(calls[i])
         /\ saves = 0
         /\ ledger = ledger0
    /\ run.stage = "all" =>
         /\ ~NothingDeployed =>
              /\ ~OnStack(InfraFns)
              /\ saves = 1
              /\ ledger.present
              /\ CompleteFor("boot_nodes", desc.boot_nodes)
              /\ CompleteFor("validators", desc.validators)
              /\ AllProvisioned
         /\ (exc.type # "none" /\ \E i \in DOMAIN exc.trace : exc.trace[i] \in InfraFns)
              => NothingDeployed

\* A process with --stage all that created the instances on an empty
\* project, saved the ledger and is now deploying the validator.
C16_Witness ==
    /\ run.stage = "all"
    /\ CallsEnded("instances.insert", "v1", "ok") # {}
    /\ saves = 1
    /\ OnStack({"deploy_validator"})
    /\ "b1" \in Range(deployed)

\* C17: a process started with GCP_PROJECT, GCP_ZONE or
\* GOOGLE_APPLICATION_CREDENTIALS unset or empty never gets past the check
\* at the top of main: it constructs no provider, issues no cloud call,
\* leaves the project metadata and the ledger as they were, performs no
\* remote action, and ends in sys.exit(1).
C17_EnvCheckFirst ==
    (\E k \in EnvVars : run.env[k] = None \/ run.env[k] = "") =>
        /\ stack \in {<<>>, <<Frame("main", "start", [x |-> None])>>}
        /\ stack = <<>> => (exc.type = "SystemExit" /\ exc.msg = "1")
        /\ calls = <<>>
        /\ op = NoOp
        /\ metadata = (instances # EmptyCloud.instances)
        /\ saves = 0
        /\ ledger = ledger0
        /\ NothingDeployed

\* A process with --stage all and GCP_ZONE empty has exited on an empty
\* project.
C17_Witness ==
    /\ run.env["GCP_ZONE"] = ""
    /\ run.env["GCP_PROJECT"] = "set"
    /\ run.stage = "all"
    /\ stack = <<>>
    /\ exc.type = "SystemExit"
    /\ ~metadata

-----------------------------------------------------------------------------
(* The resources of each kind of node, checked under Spec.                 *)

BootNames == {"b1", "b2"}

\* db_disk_gb of the validator's team config, 50 for a config without it
ConfiguredGb(v) ==
    IF desc.teams[v.team].db_disk_gb = 0 THEN 50 ELSE desc.teams[v.team].db_disk_gb

\* C18: no disk <boot node_name>-db is ever inserted, exists or is attached
\* and create_volume/attach_volume are never entered for a boot node; for a
\* validator create_volume is entered after create_instance returned for
\* it, with the team's db_disk_gb (50 without the key) as size, which is the
\* size of the disk insert it issues, and attach_volume after create_volume
\* returned for it, with the volume <node_name>-db and that instance.
C18_ResourceShape ==
    /\ \A b \in BootNames :
         /\ disks[DiskName(b)] = 0
         /\ instances[b].disks = {}
         /\ \A i \in DOMAIN calls :
              /\ calls[i].target # DiskName(b)
              /\ calls[i].api = "instances.attachDisk" => calls[i].target # b
    /\ \A f \in FramesOf("create_instance") :
         f.loc.validator \in Range(desc.boot_nodes \o desc.validators)
    /\ \A f \in FramesOf("create_volume") :
         LET v == f.loc.validator IN
         /\ v \in Range(desc.validators)
         /\ f.loc.disk_size = ConfiguredGb(v)
         /\ last.fn = "create_instance" /\ last.arg = v.node_name
         /\ instances[v.node_name].exists
         /\ (op.api = "disks.insert" /\ op.status # "DONE") =>
              (op.target = DiskName(v.node_name) /\ op.body = ConfiguredGb(v))
    /\ \A f \in FramesOf("attach_volume") :
         LET name == f.loc.instance.name IN
         /\ name \in NamesOf(desc.validators)
         /\ f.loc.volume_name = DiskName(name)
         /\ last.fn = "create_volume" /\ last.arg = name
         /\ disks[DiskName(name)] # 0
    /\ \A i \in DOMAIN desc.validators :
         LET v == desc.validators[i] IN
         disks[DiskName(v.node_name)] \in {0, DriftedCloud.disks[DiskName(v.node_name)],
                                           ConfiguredGb(v)}

\* With the boot node's instance created and no disk for it, the disk of
\* v1 was inserted with the default size and is being attached.
C18_Witness ==
    /\ instances["b1"].exists
    /\ disks["v1-db"] = 50
    /\ CallsEnded("disks.insert", "v1-db", "ok") # {}
    /\ \E f \in FramesOf("attach_volume") : f.loc.volume_name = "v1-db"
    /\ op.api = "instances.attachDisk"

-----------------------------------------------------------------------------
(* SpecBuild: the two address builders of tools/deploynet.py applied to    *)
(* node lists and IP maps drawn from bounded sets, twice each: the CSV     *)
(* builder to a list and to a permutation of it.                           *)

\* nodes per list
MaxNodes == 3

\* v1 described a second time, with another peer id and an address that
\* names its host and is written with a leading blank
Twin == [node_name |-> "v1", team |-> "teamA", peer_id |-> "peerV1b",
         address |-> "0xA3",
         listen_addresses |->
            <<[lead |-> TRUE, trail |-> FALSE,
               parts |-> <<"", "ip4", "10.9.9.9", "tcp", "30303">>]>>]

\* b2 described without a listen address
Mute == [node_name |-> "b2", team |-> "teamB", peer_id |-> "peerM",
         listen_addresses |-> <<>>]

NodePool == {B1, B2, V1, V2, Twin, Mute}

\* the lists of up to MaxNodes different descriptors
NodeLists ==
    UNION {{s \in [1..n -> NodePool] : \A i, j \in 1..n : s[i] = s[j] => i = j} :
           n \in 0..MaxNodes}

Reorderings(s) ==
    LET n == Len(s) IN
    {[i \in 1..n |-> s[f[i]]] :
       f \in {g \in [1..n -> 1..n] : \A i, j \in 1..n : g[i] = g[j] => i = j}}

\* name_to_ips with both addresses of every name, or with one name held as
\* a dict of nulls ("null"), not held ("absent") or held as a bare str
IpMap(lacking, how) ==
    LET held == IF how = "absent" THEN NodeNames \ {lacking} ELSE NodeNames IN
    [n \in held |->
       IF n # lacking THEN IpsDict(ExtIP(n), IntIP(n))
       ELSE IF how = "null" THEN IpsDict(None, None)
       ELSE IpsStr(ExtIP(n))]

IpMaps(nodes) ==
    {IpMap(None, "full")} \cup
    {IpMap(lacking, how) : lacking \in {nodes[i].node_name : i \in DOMAIN nodes},
                           how \in {"null", "absent", "str"}}

Builders == {"_build_bootstrap_multiaddrs", "_build_boot_nodes_addrs_csv"}

BuilderFrame(fn, nodes, name_to_ips) ==
    Frame(fn, "start", [nodes |-> nodes, name_to_ips |-> name_to_ips])

\* the builder applied to the list
caller_first ==
    /\ At("caller", "first")
    /\ Call("second", Loc, BuilderFrame(Loc.fn, Loc.nodes, Loc.name_to_ips))
    /\ UNCHANGED <<cloudVars, last, ledgerVars, desc, run, envFault, hosts, deployed>>

\* and to the permuted list
caller_second ==
    /\ At("caller", "second")
    /\ Call("done", [Loc EXCEPT !.first = ret[2]],
            BuilderFrame(Loc.fn, Loc.permuted, Loc.name_to_ips))
    /\ UNCHANGED <<cloudVars, last, ledgerVars, desc, run, envFault, hosts, deployed>>

caller_done ==
    /\ At("caller", "done")
    /\ Goto("end", [Loc EXCEPT !.second = ret[2]])
    /\ UNCHANGED <<cloudVars, last, ledgerVars, desc, run, envFault, hosts, deployed>>

apply_build_bootstrap_multiaddrs ==
    /\ At("_build_bootstrap_multiaddrs", "start")
    /\ IF build_bootstrap_multiaddrs_raises(Loc.nodes, Loc.name_to_ips)
       THEN Raise("AttributeError", "'str' object has no attribute 'get'")
       ELSE Return(build_bootstrap_multiaddrs(Loc.nodes, Loc.name_to_ips))
    /\ UNCHANGED <<cloudVars, last, ledgerVars, desc, run, envFault, hosts, deployed>>

apply_build_boot_nodes_addrs_csv ==
    /\ At("_build_boot_nodes_addrs_csv", "start")
    /\ IF build_boot_nodes_addrs_csv_raises(Loc.nodes, Loc.name_to_ips)
       THEN Raise("AttributeError", "'str' object has no attribute 'get'")
       ELSE Return(build_boot_nodes_addrs_csv(Loc.nodes, Loc.name_to_ips))
    /\ UNCHANGED <<cloudVars, last, ledgerVars, desc, run, envFault, hosts, deployed>>

InitBuild ==
    /\ ret = NoRet
    /\ exc = NoExc
    /\ metadata = FALSE
    /\ op = NoOp
    /\ calls = <<>>
    /\ last = NoCall
    /\ ledger = NoFile
    /\ ledger0 = NoFile
    /\ saves = 0
    /\ run = [n |-> 1, stage |-> "none", env |-> FullEnv]
    /\ envFault = FALSE
    /\ hosts = [n \in NodeNames |-> NoHost]
    /\ deployed = <<>>
    /\ instances = EmptyCloud.instances
    /\ disks = EmptyCloud.disks
    /\ firewalls = EmptyCloud.firewalls
    /\ desc = [boot_nodes |-> <<>>, validators |-> <<>>, teams |-> AllTeams]
    /\ \E fn \in Builders, nodes \in NodeLists :
         \E name_to_ips \in IpMaps(nodes),
            permuted \in (IF fn = "_build_boot_nodes_addrs_csv"
                          THEN Reorderings(nodes) ELSE {nodes}) :
            stack = <<Frame("caller", "first",
                            [fn |-> fn, nodes |-> nodes, permuted |-> permuted,
                             name_to_ips |-> name_to_ips,
                             first |-> None, second |-> None])>>

NextBuild ==
    \/ caller_first
    \/ caller_second
    \/ caller_done
    \/ apply_build_bootstrap_multiaddrs
    \/ apply_build_boot_nodes_addrs_csv

SpecBuild == InitBuild /\ [][NextBuild]_vars

\* the caller has both results of builder fn
Built(fn) == At("caller", "end") /\ Loc.fn = fn

DistinctBy(nodes, key) ==
    \A i, j \in DOMAIN nodes : nodes[i][key] = nodes[j][key] => i = j

\* every node has a listen address and name_to_ips holds its internal IP
AllKnown(nodes, name_to_ips) ==
    \A i \in DOMAIN nodes :
        /\ nodes[i].listen_addresses # <<>>
        /\ nodes[i].node_name \in DOMAIN name_to_ips
        /\ name_to_ips[nodes[i].node_name].kind = "dict"
        /\ name_to_ips[nodes[i].node_name].internal # None

\* m's first listen address, blanks around it removed, a wildcard or
\* loopback ip4 host replaced by internal_ip, followed by /p2p/<peer_id>
EntryOf(m, internal_ip) ==
    LET parts == m.listen_addresses[1].parts
        host == IF parts[2] = "ip4" /\ parts[3] \in {"0.0.0.0", "127.0.0.1"}
                THEN internal_ip ELSE parts[3]
    IN [lead |-> FALSE, trail |-> FALSE,
        parts |-> <<parts[1], parts[2], host, parts[4], parts[5], "p2p", m.peer_id>>]

\* C19: for nodes with distinct node_names, distinct peer_ids, a listen
\* address each and known internal IPs, the CSV _build_bootstrap_multiaddrs
\* computes for node n has exactly one entry for every other node m, which
\* is m's normalized first listen address followed by /p2p/<m.peer_id>, no
\* further entry, and no entry of n.
C19_ExcludesSelfCoversOthers ==
    (/\ Built("_build_bootstrap_multiaddrs")
     /\ DistinctBy(Loc.nodes, "node_name")
     /\ DistinctBy(Loc.nodes, "peer_id")
     /\ AllKnown(Loc.nodes, Loc.name_to_ips)) =>
        /\ DOMAIN Loc.first = NamesOf(Loc.nodes)
        /\ \A n \in Range(Loc.nodes) :
             LET csv == Loc.first[n.node_name]
                 entry(m) == EntryOf(m, Loc.name_to_ips[m.node_name].internal)
             IN /\ Len(csv) = Len(Loc.nodes) - 1
                /\ \A m \in Range(Loc.nodes) \ {n} :
                     Cardinality({i \in DOMAIN csv : csv[i] = entry(m)}) = 1
                /\ \A i \in DOMAIN csv : csv[i] # entry(n)

\* Three nodes with all addresses known: each has the two others as peers.
C19_Witness ==
    /\ Built("_build_bootstrap_multiaddrs")
    /\ Loc.nodes = <<B1, V1, V2>>
    /\ Loc.name_to_ips = IpMap(None, "full")
    /\ Len(Loc.first["v1"]) = 2

\* C20: for N boot nodes with distinct peer_ids, a listen address each and
\* known internal IPs, _build_boot_nodes_addrs_csv yields N entries, no two
\* equal, and for a permutation of the list the same set of entries.
C20_OrderIndependent ==
    (/\ Built("_build_boot_nodes_addrs_csv")
     /\ DistinctBy(Loc.nodes, "peer_id")
     /\ AllKnown(Loc.nodes, Loc.name_to_ips)) =>
        /\ Len(Loc.first) = Len(Loc.nodes)
        /\ \A i, j \in DOMAIN Loc.first : Loc.first[i] = Loc.first[j] => i = j
        /\ Len(Loc.second) = Len(Loc.nodes)
        /\ Range(Loc.second) = Range(Loc.first)

\* Three boot nodes and the list rotated: the entries come in another order
\* and are the same three.
C20_Witness ==
    /\ Built("_build_boot_nodes_addrs_csv")
    /\ Loc.nodes = <<B1, B2, V1>>
    /\ Loc.permuted = <<B2, V1, B1>>
    /\ Loc.name_to_ips = IpMap(None, "full")
    /\ Len(Loc.first) = 3
    /\ Loc.first # Loc.second

-----------------------------------------------------------------------------
(* SpecPorts: _derive_p2p_ports_from_listen_addresses applied to a node    *)
(* list and to a reordering of it: the nodes permuted, and the listen      *)
(* addresses of each node permuted.                                        *)

AddressLists == UNION {Reorderings(n.listen_addresses) : n \in NodePool}

\* the lists that hold the nodes of s in any order, each with its listen
\* addresses in any order
Shuffles(s) ==
    LET n == Len(s) IN
    UNION {{[i \in 1..n |-> [t[i] EXCEPT !.listen_addresses = c[i]]] :
              c \in {d \in [1..n -> AddressLists] :
                       \A i \in 1..n : d[i] \in Reorderings(t[i].listen_addresses)}} :
           t \in Reorderings(s)}

apply_derive_p2p_ports_from_listen_addresses ==
    /\ At("_derive_p2p_ports_from_listen_addresses", "start")
    /\ Return(derive_p2p_ports_from_listen_addresses(Loc.nodes))
    /\ UNCHANGED <<cloudVars, last, ledgerVars, desc, run, envFault, hosts, deployed>>

InitPorts ==
    /\ ret = NoRet
    /\ exc = NoExc
    /\ metadata = FALSE
    /\ op = NoOp
    /\ calls = <<>>
    /\ last = NoCall
    /\ ledger = NoFile
    /\ ledger0 = NoFile
    /\ saves = 0
    /\ run = [n |-> 1, stage |-> "none", env |-> FullEnv]
    /\ envFault = FALSE
    /\ hosts = [n \in NodeNames |-> NoHost]
    /\ deployed = <<>>
    /\ instances = EmptyCloud.instances
    /\ disks = EmptyCloud.disks
    /\ firewalls = EmptyCloud.firewalls
    /\ desc = [boot_nodes |-> <<>>, validators |-> <<>>, teams |-> AllTeams]
    /\ \E nodes \in NodeLists :
         \E permuted \in Shuffles(nodes) :
            stack = <<Frame("caller", "first",
                            [fn |-> "_derive_p2p_ports_from_listen_addresses",
                             nodes |-> nodes, permuted |-> permuted,
                             name_to_ips |-> EmptyDict,
                             first |-> None, second |-> None])>>

NextPorts ==
    \/ caller_first
    \/ caller_second
    \/ caller_done
    \/ apply_derive_p2p_ports_from_listen_addresses

SpecPorts == InitPorts /\ [][NextPorts]_vars

\* C21: _derive_p2p_ports_from_listen_addresses returns for a reordering of
\* the node list, and of each node's listen addresses, the same sequence of
\* (protocol, port) entries, and the "allowed" list ensure_p2p_firewall
\* builds from it is the same.
C21_OrderIndependent ==
    Built("_derive_p2p_ports_from_listen_addresses") =>
        /\ Loc.second = Loc.first
        /\ AllowedOf(Loc.second) = AllowedOf(Loc.first)

\* A boot node listening on udp 30304 and a validator on tcp 30303, in both
\* orders: the same two entries come in the order of the list, and the
\* "allowed" list has its protocols in that order.
C21_Witness ==
    /\ Built("_derive_p2p_ports_from_listen_addresses")
    /\ Loc.nodes = <<B1, V1>>
    /\ Loc.permuted = <<V1, B1>>
    /\ Loc.first = <<[protocol |-> "udp", port |-> "30304"],
                     [protocol |-> "tcp", port |-> "30303"]>>
    /\ Loc.second = <<[protocol |-> "tcp", port |-> "30303"],
                      [protocol |-> "udp", port |-> "30304"]>>
    /\ AllowedOf(Loc.first)[1].IPProtocol = "udp"
    /\ AllowedOf(Loc.second)[1].IPProtocol = "tcp"

-----------------------------------------------------------------------------
(* SpecNormalize: _normalize_multiaddr_with_internal_ip applied to         *)
(* addresses drawn from a bounded set.                                     *)

\* the components after the host
Tails == {<<>>, <<"tcp", "30303">>, <<"udp", "30304", "quic-v1">>}

ListenAddrs ==
    {[lead |-> l, trail |-> t, parts |-> <<"", h[1], h[2]>> \o tail] :
       l \in BOOLEAN, t \in BOOLEAN, tail \in Tails,
       h \in {<<"ip4", "0.0.0.0">>, <<"ip4", "127.0.0.1">>, <<"ip4", "10.9.9.9">>,
              <<"ip6", "::">>, <<"ip6", "::1">>}}

\* one application of function fn, entered at entry, to args
caller_apply ==
    /\ At("caller", "apply")
    /\ Call("result", Loc, Frame(Loc.fn, Loc.entry, Loc.args))
    /\ UNCHANGED <<cloudVars, last, ledgerVars, desc, run, envFault, hosts, deployed>>

caller_result ==
    /\ At("caller", "result")
    /\ Goto("end", [Loc EXCEPT !.result = ret[2]])
    /\ UNCHANGED <<cloudVars, last, ledgerVars, desc, run, envFault, hosts, deployed>>

apply_normalize_multiaddr_with_internal_ip ==
    /\ At("_normalize_multiaddr_with_internal_ip", "start")
    /\ Return(normalize_multiaddr_with_internal_ip(Loc.listen_addr, Loc.internal_ip))
    /\ UNCHANGED <<cloudVars, last, ledgerVars, desc, run, envFault, hosts, deployed>>

InitNormalize ==
    /\ ret = NoRet
    /\ exc = NoExc
    /\ metadata = FALSE
    /\ op = NoOp
    /\ calls = <<>>
    /\ last = NoCall
    /\ ledger = NoFile
    /\ ledger0 = NoFile
    /\ saves = 0
    /\ run = [n |-> 1, stage |-> "none", env |-> FullEnv]
    /\ envFault = FALSE
    /\ hosts = [n \in NodeNames |-> NoHost]
    /\ deployed = <<>>
    /\ instances = EmptyCloud.instances
    /\ disks = EmptyCloud.disks
    /\ firewalls = EmptyCloud.firewalls
    /\ desc = [boot_nodes |-> <<>>, validators |-> <<>>, teams |-> AllTeams]
    /\ \E listen_addr \in ListenAddrs, internal_ip \in {IntIP("v1"), IntIP("b1")} :
         stack = <<Frame("caller", "apply",
                         [fn |-> "_normalize_multiaddr_with_internal_ip",
                          entry |-> "start",
                          args |-> [listen_addr |-> listen_addr,
                                    internal_ip |-> internal_ip],
                          result |-> None])>>

NextNormalize ==
    \/ caller_apply
    \/ caller_result
    \/ apply_normalize_multiaddr_with_internal_ip

SpecNormalize == InitNormalize /\ [][NextNormalize]_vars

Sentinels == {"0.0.0.0", "127.0.0.1"}

\* C22 as stated: with a sentinel host the result is the input with the
\* host replaced by the internal IP and nothing else changed; with any
\* other host the result is the input.
C22_HostOnlyRewritten ==
    Built("_normalize_multiaddr_with_internal_ip") =>
        LET a == Loc.args.listen_addr IN
        Loc.result = (IF a.parts[3] \in Sentinels
                      THEN [a EXCEPT !.parts[3] = Loc.args.internal_ip]
                      ELSE a)

\* C22, amended: the result is the input without the whitespace around it,
\* with every component kept, except that the host of an ip4 address that
\* has a component after the host is replaced by the internal IP when it is
\* 0.0.0.0 or 127.0.0.1.
C22_StrippedHostRewritten ==
    Built("_normalize_multiaddr_with_internal_ip") =>
        LET p == Loc.args.listen_addr.parts
            r == Loc.result
        IN /\ ~r.lead
           /\ ~r.trail
           /\ Len(r.parts) = Len(p)
           /\ \A i \in DOMAIN p : i # 3 => r.parts[i] = p[i]
           /\ r.parts[3] = (IF p[2] = "ip4" /\ Len(p) >= 4 /\ p[3] \in Sentinels
                            THEN Loc.args.internal_ip ELSE p[3])

\* A loopback address written with a blank before it: the host is
\* replaced and the blank is gone.
C22_Witness ==
    /\ Built("_normalize_multiaddr_with_internal_ip")
    /\ Loc.args.listen_addr.lead
    /\ Loc.args.listen_addr.parts = <<"", "ip4", "127.0.0.1", "tcp", "30303">>
    /\ Loc.result = MA(<<"", "ip4", Loc.args.internal_ip, "tcp", "30303">>)

-----------------------------------------------------------------------------
(* The container invocation (tools/gcp/provider.py: the argument           *)
(* rendering of deploy_boot_node and deploy_validator,                     *)
(* _compose_docker_cmd).  A string of the runtime config is held as its    *)
(* tokens: pieces of text and placeholders {{name}}; a piece of text is a  *)
(* str that ends with no blank, backslash or newline, a run of blanks,     *)
(* backslashes and newlines, a comma-joined list of multiaddresses (the    *)
(* whitespace around one held as blanks), a comma-joined list of           *)
(* validator addresses, or a flag prefix such as "--peer_id=".             *)

StrVal(str) == [t |-> "str", s |-> str]
TailVal(chars) == [t |-> "tail", chars |-> chars]
CsvVal(items) == [t |-> "csv", items |-> items]
AddrsVal(items) == [t |-> "addrs", items |-> items]
FlagVal(name) == [t |-> "flag", name |-> name]

\* the text is the empty string
EmptyText(v) ==
    CASE v.t = "str" -> v.s = ""
      [] v.t = "tail" -> v.chars = <<>>
      [] v.t \in {"csv", "addrs"} -> v.items = <<>>
      [] OTHER -> FALSE

Lit(v) == [kind |-> "text", v |-> v]
Ph(name) == [kind |-> "placeholder", v |-> name]

\* The chain of str.replace calls of deploy_boot_node: the placeholders it
\* replaces, with the values it replaces them by.
BootNodeValues(boot_node, peer_addrs, network) ==
    [node_name |-> StrVal(boot_node.node_name),
     peer_id |-> StrVal(boot_node.peer_id),
     team |-> StrVal(boot_node.team),
     listen_addresses |-> CsvVal(boot_node.listen_addresses),
     peer_addrs |-> CsvVal(peer_addrs),
     bootstrap_addrs |-> CsvVal(peer_addrs),
     network |-> StrVal(network)]

\* The chain of str.replace calls of deploy_validator.
ValidatorValues(validator, peer_addrs, validator_addrs, network) ==
    [address |-> StrVal(validator.address),
     node_name |-> StrVal(validator.node_name),
     peer_id |-> StrVal(validator.peer_id),
     team |-> StrVal(validator.team),
     listen_addresses |-> CsvVal(validator.listen_addresses),
     peer_addrs |-> CsvVal(peer_addrs),
     bootstrap_addrs |-> CsvVal(peer_addrs),
     validator_addrs |-> AddrsVal(validator_addrs),
     network |-> StrVal(network)]

\* arg.replace("{{k}}", values[k]) for every key k: each placeholder among
\* the keys becomes its value; the string that results is held without its
\* empty pieces
Rendered(arg, values) ==
    LET replaced == [i \in DOMAIN arg |->
                       IF arg[i].kind = "placeholder" /\ arg[i].v \in DOMAIN values
                       THEN Lit(values[arg[i].v])
                       ELSE arg[i]]
    IN SelectSeq(replaced, LAMBDA tok : ~(tok.kind = "text" /\ EmptyText(tok.v)))

\* cmd_args = [rendered(arg) for arg in config["cmd"]]
RenderArgs(cmd, values) == [i \in DOMAIN cmd |-> Rendered(cmd[i], values)]

RECURSIVE rstrip(_)
\* str.rstrip(" \\\n"): the string without the blanks, backslashes and
\* newlines at its end
rstrip(str) ==
    IF str = <<>> THEN <<>>
    ELSE LET tok == str[Len(str)]
             front == SubSeq(str, 1, Len(str) - 1)
         IN IF tok.kind = "placeholder" THEN str
            ELSE CASE tok.v.t = "tail" -> rstrip(front)
                   [] tok.v.t = "csv" ->
                        LET items == tok.v.items
                            end == [items[Len(items)] EXCEPT !.trail = FALSE]
                        IN Append(front,
                                  Lit(CsvVal([items EXCEPT ![Len(items)] = end])))
                   [] OTHER -> str

RECURSIVE StrippedArgs(_)
\* the arguments left in cmd.rstrip(" \\\n"), cmd ending with the lines
\* "  <arg> \\\n" of cmd_args: the last argument without the blanks,
\* backslashes and newlines at its end, and when nothing is left of it,
\* the same of the arguments before it
StrippedArgs(cmd_args) ==
    IF cmd_args = <<>> THEN <<>>
    ELSE LET front == SubSeq(cmd_args, 1, Len(cmd_args) - 1)
             end == rstrip(cmd_args[Len(cmd_args)])
         IN IF end = <<>> THEN StrippedArgs(front) ELSE Append(front, end)

\* the docker run command: --restart unless-stopped, --network=host, the
\* two -v mounts, one -e per env entry with the value as the config gives
\* it, --name, the image, the arguments; no -p option is written; the
\* text is returned without the blanks, backslashes and newlines at its end
compose_docker_cmd(name, image, env, host_data_dir, container_data_dir, remote_identity_path, identity_target, listen_addresses, cmd_args) ==
    [restart |-> "unless-stopped",
     network |-> "host",
     publish |-> <<>>,
     volumes |-> <<<<host_data_dir, container_data_dir>>,
                   <<remote_identity_path, identity_target>>>>,
     env |-> env,
     name |-> name,
     image |-> image,
     args |-> StrippedArgs(cmd_args)]

\* deploy_boot_node from the config load to the composed command
deploy_boot_node_render ==
    /\ At("deploy_boot_node", "render")
    /\ LET b == Loc.boot_node
           config == Loc.config
       IN Return(compose_docker_cmd(
                     b.node_name, config.image, config.env,
                     <<"/home/ubuntu/", b.node_name, "-data">>, config.data_dir,
                     "/home/ubuntu/identity.json", config.p2p_identity_path,
                     b.listen_addresses,
                     RenderArgs(config.cmd,
                                BootNodeValues(b, Loc.peer_addrs, Loc.network))))
    /\ UNCHANGED <<cloudVars, last, ledgerVars, desc, run, envFault, hosts, deployed>>

\* deploy_validator from the config load to the composed command
deploy_validator_render ==
    /\ At("deploy_validator", "render")
    /\ LET v == Loc.validator
           config == Loc.config
       IN Return(compose_docker_cmd(
                     v.node_name, config.image, config.env,
                     <<"/mnt/disks/", v.node_name>>, config.data_dir,
                     "/home/ubuntu/identity.json", config.p2p_identity_path,
                     v.listen_addresses,
                     RenderArgs(config.cmd,
                                ValidatorValues(v, Loc.peer_addrs, Loc.validator_addrs,
                                                Loc.network))))
    /\ UNCHANGED <<cloudVars, last, ledgerVars, desc, run, envFault, hosts, deployed>>

-----------------------------------------------------------------------------
(* SpecRender: the invocation rendered for a boot node and for a           *)
(* validator, over runtime configs drawn from a bounded set.               *)

Placeholders == {"node_name", "peer_id", "team", "listen_addresses", "address",
                 "peer_addrs", "bootstrap_addrs", "validator_addrs", "network"}

\* "--<name>={{<name>}}"
FlagArg(name) == <<Lit(FlagVal(name)), Ph(name)>>

\* the "cmd" lists: one templated argument; an argument without
\* placeholder followed by one with every placeholder, by "--sep=\", by
\* "--note={{node_name}} " or by "{{peer_addrs}}"; and "{{peer_addrs}}"
\* between two backslashes alone
Cmds ==
    {<<FlagArg(name)>> : name \in Placeholders} \cup
    {<<<<Lit(StrVal("run"))>>,
       <<Ph("node_name"), Ph("peer_id"), Ph("team"), Ph("listen_addresses"),
         Ph("address"), Ph("peer_addrs"), Ph("bootstrap_addrs"),
         Ph("validator_addrs"), Ph("network")>>>>,
     <<<<Lit(StrVal("run"))>>, <<Lit(FlagVal("sep")), Lit(TailVal(<<"\\">>))>>>>,
     <<<<Lit(StrVal("run"))>>,
       <<Lit(FlagVal("note")), Ph("node_name"), Lit(TailVal(<<" ">>))>>>>,
     <<<<Lit(StrVal("run"))>>, <<Ph("peer_addrs")>>>>,
     <<<<Lit(TailVal(<<"\\">>)), Ph("peer_addrs"), Lit(TailVal(<<"\\">>))>>>>}

\* the "env" maps: none, a plain value, a templated value
ConfigEnvs ==
    {EmptyDict,
     [k \in {"RUST_LOG"} |-> <<Lit(StrVal("info"))>>],
     [k \in {"BOOTSTRAP"} |-> <<Ph("bootstrap_addrs")>>],
     [k \in {"NODE"} |-> <<Lit(StrVal("node-")), Ph("node_name")>>]}

RunConfigs ==
    {[image |-> "image:latest", data_dir |-> "/data",
      p2p_identity_path |-> "/identity.json", env |-> env, cmd |-> cmd] :
       env \in ConfigEnvs, cmd \in Cmds}

\* the peer_addrs / validator_addrs strings passed in: "" or one entry
PeerAddrsIn == {<<>>, build_boot_nodes_addrs_csv(<<B1>>, [n \in {"b1"} |->
                                                    IpsDict(ExtIP(n), IntIP(n))])}
ValidatorAddrsIn == {<<>>, <<"0xA9">>}

\* v2 with blanks around its listen addresses
V2Spaced ==
    [V2 EXCEPT !.listen_addresses =
       [i \in DOMAIN @ |-> [@[i] EXCEPT !.lead = TRUE, !.trail = TRUE]]]

RenderCalls ==
    {[fn |-> "deploy_boot_node", entry |-> "render", result |-> None,
      args |-> [boot_node |-> b, config |-> config, peer_addrs |-> peer_addrs,
                network |-> "sepolia-testnet"]] :
       b \in {B1, B2}, config \in RunConfigs, peer_addrs \in PeerAddrsIn}
    \cup
    {[fn |-> "deploy_validator", entry |-> "render", result |-> None,
      args |-> [validator |-> v, config |-> config, peer_addrs |-> peer_addrs,
                validator_addrs |-> validator_addrs, network |-> "sepolia-testnet"]] :
       v \in {V1, V2, V2Spaced}, config \in RunConfigs, peer_addrs \in PeerAddrsIn,
       validator_addrs \in ValidatorAddrsIn}

InitRender ==
    /\ ret = NoRet
    /\ exc = NoExc
    /\ metadata = FALSE
    /\ op = NoOp
    /\ calls = <<>>
    /\ last = NoCall
    /\ ledger = NoFile
    /\ ledger0 = NoFile
    /\ saves = 0
    /\ run = [n |-> 1, stage |-> "none", env |-> FullEnv]
    /\ envFault = FALSE
    /\ hosts = [n \in NodeNames |-> NoHost]
    /\ deployed = <<>>
    /\ instances = EmptyCloud.instances
    /\ disks = EmptyCloud.disks
    /\ firewalls = EmptyCloud.firewalls
    /\ desc = [boot_nodes |-> <<>>, validators |-> <<>>, teams |-> AllTeams]
    /\ \E call \in RenderCalls : stack = <<Frame("caller", "apply", call)>>

NextRender ==
    \/ caller_apply
    \/ caller_result
    \/ deploy_boot_node_render
    \/ deploy_validator_render

SpecRender == InitRender /\ [][NextRender]_vars

\* the string holds one of the named placeholders
HoldsPlaceholder(str, names) ==
    \E i \in DOMAIN str : str[i].kind = "placeholder" /\ str[i].v \in names

\* the placeholders named for the kind of node
NamedFor(fn) ==
    IF fn = "deploy_validator" THEN Placeholders ELSE Placeholders \ {"address"}

\* C23: in the invocation rendered for a node no named placeholder remains
\* in a command argument or in the value of an environment variable, and an
\* argument "--bootstrap_addrs={{bootstrap_addrs}}" rendered with the empty
\* string is "--bootstrap_addrs=".
C23_NoPlaceholderLeft ==
    (Built("deploy_boot_node") \/ Built("deploy_validator")) =>
        LET cmd == Loc.result IN
        /\ \A i \in DOMAIN cmd.args : ~HoldsPlaceholder(cmd.args[i], NamedFor(Loc.fn))
        /\ \A k \in DOMAIN cmd.env : ~HoldsPlaceholder(cmd.env[k], NamedFor(Loc.fn))
        /\ (Loc.args.config.cmd = <<FlagArg("bootstrap_addrs")>>
              /\ Loc.args.peer_addrs = <<>>) =>
             cmd.args = <<<<Lit(FlagVal("bootstrap_addrs"))>>>>

\* A validator's config with BOOTSTRAP={{bootstrap_addrs}} in env and
\* --bootstrap_addrs={{bootstrap_addrs}} as argument, rendered with the
\* empty string: the argument is "--bootstrap_addrs=", the value of the
\* variable is still the placeholder.
C23_Witness ==
    /\ Built("deploy_validator")
    /\ Loc.args.config.cmd = <<FlagArg("bootstrap_addrs")>>
    /\ Loc.args.peer_addrs = <<>>
    /\ Loc.result.args = <<<<Lit(FlagVal("bootstrap_addrs"))>>>>
    /\ "BOOTSTRAP" \in DOMAIN Loc.result.env
    /\ Loc.result.env["BOOTSTRAP"] = <<Ph("bootstrap_addrs")>>

\* C24: the invocation of a boot node uses host networking and publishes no
\* port; that of a validator does not use host networking and publishes
\* the (protocol, port) pairs of its own listen addresses, each once.
C24_ContainerNetworking ==
    /\ Built("deploy_boot_node") =>
         (Loc.result.network = "host" /\ Loc.result.publish = <<>>)
    /\ Built("deploy_validator") =>
         /\ Loc.result.network # "host"
         /\ Loc.result.publish =
               derive_p2p_ports_from_listen_addresses(<<Loc.args.validator>>)

\* The invocation of validator v2, which listens on tcp 30303 and udp
\* 30303: host networking, no port published.
C24_Witness ==
    /\ Built("deploy_validator")
    /\ Loc.args.validator = V2
    /\ Len(derive_p2p_ports_from_listen_addresses(<<V2>>)) = 2
    /\ Loc.result.network = "host"
    /\ Loc.result.publish = <<>>

-----------------------------------------------------------------------------
(* The ledger file as JSON text (tools/deploynet.py: json.dump in          *)
(* save_state, json.load in load_state).  A Python value carries its type: *)
(* None, str, int, list, tuple, or dict as the sequence of its (key,       *)
(* value) items in insertion order.  A JSON document is null, a string, a  *)
(* number, an array, or an object as the sequence of its members.          *)

PyValue(t, str, n, xs, items) == [t |-> t, s |-> str, n |-> n, xs |-> xs, items |-> items]
PyNone == PyValue("NoneType", "", 0, <<>>, <<>>)
PyStr(str) == PyValue("str", str, 0, <<>>, <<>>)
PyInt(n) == PyValue("int", "", n, <<>>, <<>>)
PyList(xs) == PyValue("list", "", 0, xs, <<>>)
PyTuple(xs) == PyValue("tuple", "", 0, xs, <<>>)
PyDict(items) == PyValue("dict", "", 0, <<>>, items)

JValue(j, str, n, xs, members) == [j |-> j, s |-> str, n |-> n, xs |-> xs, members |-> members]
JNull == JValue("null", "", 0, <<>>, <<>>)
JString(str) == JValue("string", str, 0, <<>>, <<>>)
JNumber(n) == JValue("number", "", n, <<>>, <<>>)
JArray(xs) == JValue("array", "", 0, xs, <<>>)
JObject(members) == JValue("object", "", 0, <<>>, members)

\* the decimal text of a small int
IntText(n) == <<"0", "1", "2", "3", "4", "5", "6", "7", "8", "9">>[n + 1]

\* json.dump writes every key as a string: a str as it is, an int as its
\* decimal text, None as "null"
KeyText(k) ==
    CASE k.t = "str" -> k.s
      [] k.t = "int" -> IntText(k.n)
      [] OTHER -> "null"

RECURSIVE json_dump(_)
json_dump(o) ==
    CASE o.t = "NoneType" -> JNull
      [] o.t = "str" -> JString(o.s)
      [] o.t = "int" -> JNumber(o.n)
      [] o.t \in {"list", "tuple"} -> JArray([i \in DOMAIN o.xs |-> json_dump(o.xs[i])])
      [] OTHER -> JObject([i \in DOMAIN o.items |->
                             <<KeyText(o.items[i][1]), json_dump(o.items[i][2])>>])

\* the dict built from a sequence of (key, value) pairs: one item per key,
\* at the place of the key's first pair, with the value of its last pair
DictOf(pairs) ==
    LET firsts == {i \in DOMAIN pairs : \A j \in 1..(i - 1) : pairs[j][1] # pairs[i][1]}
        LastOf(k) == CHOOSE i \in DOMAIN pairs :
                        /\ pairs[i][1] = k
                        /\ \A j \in DOMAIN pairs : pairs[j][1] = k => j <= i
        Kept[i \in 0..Len(pairs)] ==
            IF i = 0 THEN <<>>
            ELSE IF i \in firsts
                 THEN Append(Kept[i - 1], <<pairs[i][1], pairs[LastOf(pairs[i][1])][2]>>)
                 ELSE Kept[i - 1]
    IN Kept[Len(pairs)]

RECURSIVE json_load(_)

json_load_null_as_text(doc) ==
    CASE doc.j = "null" -> PyStr("null")
      [] doc.j = "string" -> PyStr(doc.s)
      [] doc.j = "number" -> PyInt(doc.n)
      [] doc.j = "array" -> PyList([i \in DOMAIN doc.xs |-> json_load(doc.xs[i])])
      [] OTHER -> PyDict([i \in DOMAIN doc.members |->
                            <<PyStr(doc.members[i][1]), json_load(doc.members[i][2])>>])

json_load(doc) ==
    CASE doc.j = "null" -> PyNone
      [] doc.j = "string" -> PyStr(doc.s)
      [] doc.j = "number" -> PyInt(doc.n)
      [] doc.j = "array" -> PyList([i \in DOMAIN doc.xs |-> json_load(doc.xs[i])])
      [] OTHER ->
           LET loaded == DictOf([i \in DOMAIN doc.members |->
                                   <<doc.members[i][1], json_load(doc.members[i][2])>>])
           IN PyDict([i \in DOMAIN loaded |-> <<PyStr(loaded[i][1]), loaded[i][2]>>])

\* save_state(state) on a typed state: the file then holds json.dump(state)
apply_save_state ==
    /\ At("save_state", "start")
    /\ save_state(json_load(json_dump(Loc.state)))
    /\ Return(None)
    /\ UNCHANGED <<cloudVars, last, desc, run, envFault, hosts, deployed>>

\* load_state(): json.load of the file if it exists, {} otherwise
apply_load_state ==
    /\ At("load_state", "start")
    /\ Return(IF ledger.present THEN ledger.data ELSE PyDict(<<>>))
    /\ UNCHANGED <<cloudVars, last, ledgerVars, desc, run, envFault, hosts, deployed>>

-----------------------------------------------------------------------------
(* SpecLedger: save_state followed by load_state, and load_state alone,    *)
(* over ledger states drawn from a bounded set.                            *)

PyIp(ip) == IF ip = None THEN PyNone ELSE PyStr(ip)

\* the record provision_infra writes for a node, its IPs held as how says
PyRecord(node, is_validator, how) ==
    LET base == <<<<PyStr("node_name"), PyStr(node.node_name)>>,
                  <<PyStr("team"), PyStr(node.team)>>>>
                \o (IF is_validator
                    THEN <<<<PyStr("address"), PyStr(node.address)>>>> ELSE <<>>)
                \o <<<<PyStr("peer_id"), PyStr(node.peer_id)>>>>
        Ips(external, internal) ==
            <<<<PyStr("external_ip"), PyIp(external)>>,
              <<PyStr("internal_ip"), PyIp(internal)>>>>
    IN PyDict(CASE how = "full" ->
                     base \o Ips(ExtIP(node.node_name), IntIP(node.node_name))
                [] how = "null" -> base \o Ips(None, None)
                [] how = "half" -> base \o Ips(ExtIP(node.node_name), None)
                [] OTHER -> base)

PyRecords(nodes, is_validator, lacking, how) ==
    PyDict([i \in DOMAIN nodes |->
              <<PyStr(nodes[i].node_name),
                PyRecord(nodes[i], is_validator,
                         IF nodes[i].node_name = lacking THEN how ELSE "full")>>])

\* the state of provision_infra for descriptor d, the clock read at second
\* at
PyState(d, lacking, how, at) ==
    PyDict(<<<<PyStr("metadata"),
               PyDict(<<<<PyStr("project"), PyStr("project")>>,
                        <<PyStr("zone"), PyStr("zone")>>,
                        <<PyStr("generated_at"), PyStr(IsoFormat(at))>>,
                        <<PyStr("version"), PyInt(1)>>>>)>>,
             <<PyStr("boot_nodes"), PyRecords(d.boot_nodes, FALSE, lacking, how)>>,
             <<PyStr("validators"), PyRecords(d.validators, TRUE, lacking, how)>>>>)

\* well-formed ledger states: those of provision_infra, and the empty state
LedgerStates ==
    {PyDict(<<>>)} \cup
    {PyState(d, lacking, how, at) :
       d \in AppDescs \cup EditedDescs,
       lacking \in {"b1", "v1"},
       how \in {"full", "null", "half", "missing"},
       at \in 0..MaxRuns}

\* states that are not ledger states: a key that is not a str, a tuple
OtherStates ==
    {PyDict(<<<<PyInt(1), PyStr("v1")>>>>),
     PyDict(<<<<PyStr("p2p"), PyTuple(<<PyStr("tcp"), PyInt(30303)>>)>>>>),
     PyDict(<<<<PyInt(1), PyStr("v1")>>, <<PyStr("1"), PyStr("v2")>>>>)}

RECURSIVE WellFormed(_)
\* a state json can hold as it is: str keys; None, str, int, list and dict
\* values
WellFormed(o) ==
    CASE o.t \in {"NoneType", "str", "int"} -> TRUE
      [] o.t = "list" -> \A i \in DOMAIN o.xs : WellFormed(o.xs[i])
      [] o.t = "dict" ->
           /\ \A i \in DOMAIN o.items :
                 o.items[i][1].t = "str" /\ WellFormed(o.items[i][2])
           /\ \A i, k \in DOMAIN o.items : o.items[i][1] = o.items[k][1] => i = k
      [] OTHER -> FALSE

\* save_state(state)
caller_save ==
    /\ At("caller", "save")
    /\ Call("load", Loc, Frame("save_state", "start", [state |-> Loc.state]))
    /\ UNCHANGED <<cloudVars, last, ledgerVars, desc, run, envFault, hosts, deployed>>

\* loaded = load_state()
caller_load ==
    /\ At("caller", "load")
    /\ Call("loaded", Loc, Frame("load_state", "start", EmptyDict))
    /\ UNCHANGED <<cloudVars, last, ledgerVars, desc, run, envFault, hosts, deployed>>

caller_loaded ==
    /\ At("caller", "loaded")
    /\ Goto("end", [Loc EXCEPT !.loaded = ret[2]])
    /\ UNCHANGED <<cloudVars, last, ledgerVars, desc, run, envFault, hosts, deployed>>

InitLedger ==
    /\ ret = NoRet
    /\ exc = NoExc
    /\ metadata = FALSE
    /\ op = NoOp
    /\ calls = <<>>
    /\ last = NoCall
    /\ saves = 0
    /\ run = [n |-> 1, stage |-> "none", env |-> FullEnv]
    /\ envFault = FALSE
    /\ hosts = [n \in NodeNames |-> NoHost]
    /\ deployed = <<>>
    /\ instances = EmptyCloud.instances
    /\ disks = EmptyCloud.disks
    /\ firewalls = EmptyCloud.firewalls
    /\ desc = [boot_nodes |-> <<>>, validators |-> <<>>, teams |-> AllTeams]
    /\ ledger0 = NoFile
    /\ \/ /\ ledger \in {NoFile, File(PyState(B1V1, "v1", "full", 0))}
          /\ \E state \in LedgerStates \cup OtherStates :
               stack = <<Frame("caller", "save",
                               [fn |-> "save_state", saved |-> TRUE,
                                state |-> state, loaded |-> None])>>
       \/ /\ ledger = NoFile
          /\ stack = <<Frame("caller", "load",
                             [fn |-> "load_state", saved |-> FALSE,
                              state |-> PyDict(<<>>), loaded |-> None])>>

NextLedger ==
    \/ caller_save
    \/ caller_load
    \/ caller_loaded
    \/ apply_save_state
    \/ apply_load_state

SpecLedger == InitLedger /\ [][NextLedger]_vars

\* C25: load_state() after save_state(state) returns a value equal to state
\* for every well-formed state, and load_state() returns the empty state {}
\* without raising when no ledger file exists.
C25_LedgerRoundTrip ==
    /\ exc = NoExc
    /\ (Built("save_state") /\ WellFormed(Loc.state)) => Loc.loaded = Loc.state
    /\ (Built("load_state") /\ ~ledger.present) => Loc.loaded = PyDict(<<>>)

\* The state of boot node b1 and validator v1, v1 with null IPs, saved over
\* an older ledger and loaded back equal.
C25_Witness ==
    /\ Built("save_state")
    /\ Loc.state = PyState(B1V1, "v1", "null", 1)
    /\ ledger.present
    /\ saves = 1
    /\ Loc.loaded = Loc.state

\* A state with an int key does not come back equal: the key is a str in
\* the loaded value.
C25_IntKeyChanged ==
    /\ Built("save_state")
    /\ Loc.state = PyDict(<<<<PyInt(1), PyStr("v1")>>>>)
    /\ Loc.loaded = PyDict(<<<<PyStr("1"), PyStr("v1")>>>>)

\* load_state() with no ledger file has returned {}.
C25_NoFileWitness ==
    /\ Built("load_state")
    /\ ~ledger.present
    /\ Loc.loaded = PyDict(<<>>)

-----------------------------------------------------------------------------
(* SpecInternalIp: get_instance_internal_ip called for an instance in any  *)
(* condition the cloud can hold it in, with and without a network          *)
(* interface.                                                              *)

InstanceConditions ==
    {NoInstance} \cup
    {[exists |-> TRUE, status |-> st, tags |-> {VALIDATOR_TAG}, nic |-> nic,
      ac |-> ac, natIP |-> nat, disks |-> {}] :
       st \in {"PROVISIONING", "RUNNING", "STOPPED"},
       nic \in BOOLEAN, ac \in BOOLEAN, nat \in BOOLEAN}

InitInternalIp ==
    /\ ret = NoRet
    /\ exc = NoExc
    /\ metadata = FALSE
    /\ op = NoOp
    /\ calls = <<>>
    /\ last = NoCall
    /\ ledger = NoFile
    /\ ledger0 = NoFile
    /\ saves = 0
    /\ run = [n |-> 1, stage |-> "none", env |-> FullEnv]
    /\ envFault = FALSE
    /\ hosts = [n \in NodeNames |-> NoHost]
    /\ deployed = <<>>
    /\ disks = EmptyCloud.disks
    /\ firewalls = EmptyCloud.firewalls
    /\ desc = B1V1
    /\ \E name \in {"b1", "v1"}, inst \in InstanceConditions :
         /\ instances = [EmptyCloud.instances EXCEPT ![name] = inst]
         /\ stack = <<Frame("caller", "apply",
                            [fn |-> "get_instance_internal_ip", entry |-> "get",
                             args |-> [name |-> name], result |-> None])>>

NextInternalIp ==
    \/ caller_apply
    \/ caller_result
    \/ get_instance_internal_ip

SpecInternalIp == InitInternalIp /\ [][NextInternalIp]_vars

\* C26: get_instance_internal_ip ends with its one read of the instance: it
\* returns to its caller in that step, without raising and without a
\* mutating cloud call, and it returns None when the instance read has no
\* network interface.
C26_SingleReadNoRaise ==
    [][At("get_instance_internal_ip", "get") =>
         /\ stack' = SubSeq(stack, 1, Depth - 1)
         /\ exc' = NoExc
         /\ calls' = calls
         /\ op' = op
         /\ disks' = disks
         /\ firewalls' = firewalls
         /\ LET inst == instances'[Loc.name] IN
            /\ ~(inst.exists /\ inst.nic) => ret'[2] = None
            /\ ret'[2] # None => (inst.exists /\ inst.nic /\ ret'[2] = IntIP(Loc.name))]_vars

\* The caller of get_instance_internal_ip for running instance v1, which has
\* no network interface, has None as result; nothing was raised or issued.
C26_Witness ==
    /\ Built("get_instance_internal_ip")
    /\ Loc.args.name = "v1"
    /\ instances["v1"].exists
    /\ instances["v1"].status = "RUNNING"
    /\ ~instances["v1"].nic
    /\ Loc.result = None
    /\ exc = NoExc
    /\ calls = <<>>

-----------------------------------------------------------------------------
(* SpecRedeploy: the app stage of a first process, on hosts without        *)
(* containers, or of a second process, on hosts where the first left the   *)
(* container of each node running.                                         *)

\* the host of node name as a completed deployment leaves it
DeployedHost(name) == [containers |-> {name}, trace |-> <<>>]

InitRedeploy ==
    /\ ret = NoRet
    /\ exc = NoExc
    /\ metadata = TRUE
    /\ op = NoOp
    /\ calls = <<>>
    /\ last = NoCall
    /\ saves = 0
    /\ envFault = FALSE
    /\ deployed = <<>>
    /\ instances = ProvisionedCloud.instances
    /\ disks = ProvisionedCloud.disks
    /\ firewalls = ProvisionedCloud.firewalls
    /\ desc = B1V1
    /\ ledger \in Ledgers(desc)
    /\ ledger0 = ledger
    /\ \E n \in 1..MaxRuns :
         /\ run = [n |-> n, stage |-> "app", env |-> FullEnv]
         /\ hosts = [name \in NodeNames |->
                       IF n > 1 /\ name \in {"b1", "v1"} THEN DeployedHost(name)
                       ELSE NoHost]
    /\ stack = <<Frame("main", "start", [x |-> None])>>

SpecRedeploy == InitRedeploy /\ [][NextApp]_vars

\* in a trace of remote steps the pull follows the stop-and-remove and the
\* container start follows the pull
RestartOrdered(trace) ==
    \A i \in DOMAIN trace :
       /\ trace[i].step = "pull" => (i > 1 /\ trace[i - 1].step = "stop_rm")
       /\ trace[i].step = "run" => (i > 2 /\ trace[i - 1].step = "pull"
                                         /\ trace[i - 2].step = "stop_rm")

\* C27: in each deployment the stop-and-remove of the node's container is
\* issued before the image pull and the pull before the container start;
\* the stop-and-remove step, whatever it finds on the host, raises nothing
\* and is followed by the pull; and a host holds at most one container,
\* that of its node, after any deployment.
C27_ContainerReplaced ==
    [][/\ \A n \in NodeNames :
            /\ RestartOrdered(hosts'[n].trace)
            /\ hosts'[n].containers \subseteq {n}
            /\ Cardinality(hosts'[n].containers) <= 1
       /\ \A fn \in DeployFns :
            LET steps == IF fn = "deploy_validator" THEN ValidatorSteps
                         ELSE BootNodeSteps
            IN (At(fn, "remote") /\ steps[Loc.k] = "stop_rm") =>
                  /\ exc' = NoExc
                  /\ Len(stack') = Len(stack)
                  /\ steps[stack'[Len(stack')].loc.k] = "pull"]_vars

\* The second process deployed v1 on the host where the first had left its
\* container: stop-and-remove, pull and start succeeded, and the host holds
\* the one container v1.
C27_Witness ==
    LET t == hosts["v1"].trace IN
    /\ run.n = 2
    /\ "v1" \in Range(deployed)
    /\ \E i \in DOMAIN t :
         /\ i + 2 = Len(t)
         /\ t[i].step = "stop_rm" /\ t[i].ok
         /\ t[i + 1].step = "pull" /\ t[i + 1].ok
         /\ t[i + 2].step = "run" /\ t[i + 2].ok
    /\ hosts["v1"].containers = {"v1"}

\* The first process deployed b1 on a host without container: the
\* stop-and-remove step ran and the deployment went on to the start.
C27_FreshHostWitness ==
    /\ run.n = 1
    /\ "b1" \in Range(deployed)
    /\ hosts["b1"].containers = {"b1"}

-----------------------------------------------------------------------------
(* SpecConfigs: the infra stage over descriptors whose teams have or lack  *)
(* their runtime config (validators/<team>/run_validator.yaml, run.yaml).  *)

TeamSets ==
    [Teams -> {TeamConfig(TRUE, TRUE, TRUE, 0), TeamConfig(FALSE, FALSE, TRUE, 0)}]

ConfigDescs ==
    {[boot_nodes |-> boot_nodes, validators |-> <<V1, V2>>, teams |-> teams] :
       boot_nodes \in {<<>>, <<B1>>}, teams \in TeamSets}

InitConfigs ==
    /\ InitCommon
    /\ instances = EmptyCloud.instances
    /\ disks = EmptyCloud.disks
    /\ firewalls = EmptyCloud.firewalls
    /\ ledger = NoFile
    /\ desc \in ConfigDescs

SpecConfigs == InitConfigs /\ [][Next]_vars

\* C28: when the infra stage fails because the runtime config of a
\* validator's team is missing, no mutating cloud call of the stage was
\* issued before: no instance, no disk and no P2P rule was created.
C28_ConfigErrorsFirst ==
    exc.type = "FileNotFoundError" =>
        /\ \A i \in DOMAIN calls : ~InfraCall(calls[i])
        /\ \A n \in NodeNames : ~instances[n].exists
        /\ \A d \in DiskNames : disks[d] = 0
        /\ ~firewalls[P2P_RULE].exists

\* The first infra process failed on the missing config of v2's team after
\* it had created the instance of boot node b1 and the instance and the
\* disk of validator v1.
C28_Witness ==
    /\ run.n = 1
    /\ exc.type = "FileNotFoundError"
    /\ exc.loc.validators[exc.loc.i].node_name = "v2"
    /\ ~desc.teams["teamB"].present
    /\ instances["b1"].exists
    /\ instances["v1"].exists
    /\ disks["v1-db"] > 0
    /\ \E i \in DOMAIN calls : calls[i].api = "instances.insert" /\ calls[i].target = "b1"

\* C29: every ledger the infra stage saved holds, for each boot node and
\* validator record, an external_ip and an internal_ip that are not null.
C29_SavedLedgerComplete ==
    ledger.present =>
        \A kind \in {"boot_nodes", "validators"} :
           \A n \in DOMAIN ledger.data[kind] :
              /\ Get(ledger.data[kind][n], "external_ip") # None
              /\ Get(ledger.data[kind][n], "internal_ip") # None

\* The infra stage returned and saved a ledger in which v1 has its external
\* IP and a null internal_ip: the read of the internal IP had failed.
C29_Witness ==
    /\ ledger.present
    /\ saves = 1
    /\ exc = NoExc
    /\ "v1" \in DOMAIN ledger.data.validators
    /\ Get(ledger.data.validators["v1"], "external_ip") = ExtIP("v1")
    /\ Get(ledger.data.validators["v1"], "internal_ip") = None

\* C30: get_instance_ip issues instances.start exactly when the instance it
\* reads is STOPPED: none for a RUNNING instance, none for a PROVISIONING
\* one.
C30_StartIffStopped ==
    [][(At("get_instance_ip", "status") /\ instances[Loc.name].exists) =>
          ((/\ Len(calls') = Len(calls) + 1
            /\ calls'[Len(calls')].api = "instances.start"
            /\ calls'[Len(calls')].target = Loc.name)
             <=> instances'[Loc.name].status = "STOPPED")]_vars

\* instances.start was issued for b1, which the stage had just created and
\* which was never stopped: get_instance_ip had read it as PROVISIONING.
C30_Witness ==
    /\ instances["b1"].exists
    /\ \E i \in DOMAIN calls :
         /\ calls[i].api = "instances.start"
         /\ calls[i].target = "b1"
         /\ \E j \in 1..(i - 1) :
              /\ calls[j].api = "instances.insert"
              /\ calls[j].target = "b1"
              /\ calls[j].result = "ok"

-----------------------------------------------------------------------------
(* SpecAppDrift: the app stage on a provisioned project in which the       *)
(* instance of one node may have been stopped, or may have lost its        *)
(* access config, since the infra stage, and in which the team may lack    *)
(* the runtime config of its validators or of its boot nodes.              *)

\* B1V1 with every combination of teamA's runtime config files
DriftDescs ==
    {[B1V1 EXCEPT !.teams["teamA"] = TeamConfig(present, present, boot_present, 0)] :
       present \in BOOLEAN, boot_present \in BOOLEAN}

\* the instance as it is when stopped by hand, and without access config
Drifts(inst) ==
    {inst,
     [inst EXCEPT !.status = "STOPPED", !.natIP = FALSE],
     [inst EXCEPT !.ac = FALSE, !.natIP = FALSE]}

InitAppDrift ==
    /\ ret = NoRet
    /\ exc = NoExc
    /\ metadata = TRUE
    /\ op = NoOp
    /\ calls = <<>>
    /\ last = NoCall
    /\ saves = 0
    /\ envFault = FALSE
    /\ hosts = [n \in NodeNames |-> NoHost]
    /\ deployed = <<>>
    /\ \E name \in {"b1", "v1"} :
         \E inst \in Drifts(ProvisionedCloud.instances[name]) :
            instances = [ProvisionedCloud.instances EXCEPT ![name] = inst]
    /\ disks = ProvisionedCloud.disks
    /\ firewalls = ProvisionedCloud.firewalls
    /\ desc \in DriftDescs
    /\ ledger \in Ledgers(desc)
    /\ ledger0 = ledger
    /\ run = [n |-> 1, stage |-> "app", env |-> FullEnv]
    /\ stack = <<Frame("main", "start", [x |-> None])>>

NextAppDrift ==
    \/ NextApp
    \/ wait_for_operation
    \/ get_instance_ip_await_running

SpecAppDrift == InitAppDrift /\ [][NextAppDrift]_vars

\* C31: while deploy_boot_node or deploy_validator runs, no mutating cloud
\* call is issued and no instance, disk or firewall rule is changed by one:
\* the list of issued calls stays as it is, and so do the disks, the rules
\* and every instance's existence, tags, access config and attached disks.
C31_NoCloudMutation ==
    [][OnStack(DeployFns) =>
         /\ Len(calls') = Len(calls)
         /\ disks' = disks
         /\ firewalls' = firewalls
         /\ \A n \in NodeNames :
              /\ instances'[n].exists = instances[n].exists
              /\ instances'[n].tags = instances[n].tags
              /\ instances'[n].ac = instances[n].ac
              /\ instances'[n].disks = instances[n].disks]_vars

\* deploy_validator for v1, whose instance had been stopped, is waiting for
\* the instances.start it issued through get_instance_ip.
C31_Witness ==
    /\ OnStack({"deploy_validator"})
    /\ calls # <<>>
    /\ calls[Len(calls)].api = "instances.start"
    /\ calls[Len(calls)].target = "v1"
    /\ hosts["v1"].trace = <<>>

\* C32: ssh_connect makes at most SshRetries attempts; the k-th attempt runs
\* after sleeps of SshDelay * 2^(j-1) for j < k, and one step of it either
\* returns the client, or after an authentication failure with k < SshRetries
\* sleeps SshDelay * 2^(k-1) and goes to attempt k + 1, or on the last
\* attempt re-raises the authentication failure without sleeping, or raises
\* any other exception at once, whatever the attempt.
C32_RetryBudget ==
    [][At("ssh_connect", "attempt") =>
         LET k == Loc.attempt IN
         /\ k \in 1..SshRetries
         /\ Loc.delay = SshDelay * 2^(k - 1)
         /\ Loc.slept = SshDelay * (2^(k - 1) - 1)
         /\ \/ /\ stack' = SubSeq(stack, 1, Depth - 1)
               /\ exc' = NoExc
               /\ ret'[2] = "client"
            \/ /\ k < SshRetries
               /\ exc' = NoExc
               /\ Len(stack') = Depth
               /\ stack'[Depth].fn = "ssh_connect"
               /\ stack'[Depth].loc.attempt = k + 1
               /\ stack'[Depth].loc.slept = Loc.slept + SshDelay * 2^(k - 1)
            \/ /\ k = SshRetries
               /\ exc'.type = "AuthenticationException"
               /\ exc'.loc.slept = Loc.slept
            \/ /\ exc'.type = "SSHException"
               /\ exc'.loc = Loc]_vars

\* The fifth attempt failed to authenticate, after sleeps of 2, 4, 8 and 16
\* seconds, and the failure was raised.
C32_Witness ==
    /\ exc.type = "AuthenticationException"
    /\ exc.loc.attempt = 5
    /\ exc.loc.slept = 2 + 4 + 8 + 16
    /\ exc.loc.delay = 32

\* The second attempt raised another exception, which ended the retries.
C32_OtherWitness ==
    /\ exc.type = "SSHException"
    /\ exc.loc.attempt = 2
    /\ exc.loc.slept = 2

-----------------------------------------------------------------------------
(* SpecSsh: wait_for_ssh(ip) called for the address of a node, the process *)
(* taking its next step as long as it has one.                             *)

InitSsh ==
    /\ ret = NoRet
    /\ exc = NoExc
    /\ metadata = TRUE
    /\ op = NoOp
    /\ calls = <<>>
    /\ last = NoCall
    /\ ledger = NoFile
    /\ ledger0 = NoFile
    /\ saves = 0
    /\ run = [n |-> 1, stage |-> "app", env |-> FullEnv]
    /\ envFault = FALSE
    /\ hosts = [n \in NodeNames |-> NoHost]
    /\ deployed = <<>>
    /\ instances = ProvisionedCloud.instances
    /\ disks = ProvisionedCloud.disks
    /\ firewalls = ProvisionedCloud.firewalls
    /\ desc = B1V1
    /\ \E name \in NodeNames :
         stack = <<Frame("caller", "apply",
                         [fn |-> "wait_for_ssh", entry |-> "probe",
                          args |-> [ip |-> ExtIP(name), elapsed |-> 0],
                          result |-> None])>>

NextSsh ==
    \/ caller_apply
    \/ caller_result
    \/ wait_for_ssh

\* a started python process runs on: it is never suspended for ever before
\* its next statement
SpecSsh == InitSsh /\ [][NextSsh]_vars /\ WF_vars(NextSsh)

\* C33: a step of wait_for_ssh before the timeout has elapsed either
\* returns, its connection to port 22 having succeeded, or ends a failed
\* attempt with more time elapsed; a step after the timeout has elapsed
\* starts no attempt and raises; and wait_for_ssh always ends.
C33_WaitForSshBounded ==
    /\ [][At("wait_for_ssh", "probe") =>
            \/ /\ Loc.elapsed < WaitSshTimeout
               /\ stack' = SubSeq(stack, 1, Depth - 1)
               /\ exc' = NoExc
               /\ hosts'[HostOf(Loc.ip)].trace =
                     Append(hosts[HostOf(Loc.ip)].trace,
                            [step |-> "wait_ssh", ok |-> TRUE])
            \/ /\ Loc.elapsed < WaitSshTimeout
               /\ exc' = NoExc
               /\ hosts' = hosts
               /\ Len(stack') = Depth
               /\ stack'[Depth].fn = "wait_for_ssh"
               /\ stack'[Depth].loc.elapsed > Loc.elapsed
            \/ /\ Loc.elapsed >= WaitSshTimeout
               /\ exc'.type = "Exception"
               /\ stack' = <<>>
               /\ hosts' = hosts]_vars
    /\ (OnStack({"wait_for_ssh"}) ~> ~OnStack({"wait_for_ssh"}))

\* wait_for_ssh raised after attempts that ended 8, 16, ... seconds in: the
\* last one began before the 60 seconds had elapsed and ended after them.
C33_Witness ==
    /\ exc.type = "Exception"
    /\ exc.msg = "SSH not available"
    /\ exc.loc.elapsed = 64
    /\ \A n \in NodeNames : hosts[n].trace = <<>>

\* wait_for_ssh returned after a connection that succeeded.
C33_ReturnWitness ==
    /\ Built("wait_for_ssh")
    /\ exc = NoExc
    /\ hosts["v1"].trace = <<[step |-> "wait_ssh", ok |-> TRUE]>>

-----------------------------------------------------------------------------
(* SpecDerive: _derive_p2p_ports_from_listen_addresses over nodes whose    *)
(* listen addresses include other protocols, ports that are no numbers,    *)
(* addresses that are too short and repeated pairs.                        *)

\* Listen addresses of one call, over its nodes.
MaxListen == 3

OddAddrs ==
    {MA(<<"", "ip4", "0.0.0.0", "tcp", "30303">>),
     MA(<<"", "ip4", "127.0.0.1", "udp", "30304", "quic-v1">>),
     MA(<<"", "ip4", "0.0.0.0", "sctp", "30303">>),
     MA(<<"", "dns4", "node.example", "tcp", "http">>),
     MA(<<"", "ip4", "0.0.0.0", "tcp">>),
     MA(<<"", "ip4", "0.0.0.0", "tcp", "">>),
     [lead |-> TRUE, trail |-> TRUE,
      parts |-> <<"", "ip4", "10.9.9.9", "tcp", "30303">>]}

\* two nodes that share out a list of listen addresses
OddNodeLists ==
    UNION {{<<[node_name |-> "n1", listen_addresses |-> SubSeq(addrs, 1, k)],
              [node_name |-> "n2",
               listen_addresses |-> SubSeq(addrs, k + 1, Len(addrs))]>> :
              k \in 0..Len(addrs)} :
           addrs \in UNION {[1..n -> OddAddrs] : n \in 0..MaxListen}}

InitDerive ==
    /\ ret = NoRet
    /\ exc = NoExc
    /\ metadata = FALSE
    /\ op = NoOp
    /\ calls = <<>>
    /\ last = NoCall
    /\ ledger = NoFile
    /\ ledger0 = NoFile
    /\ saves = 0
    /\ run = [n |-> 1, stage |-> "none", env |-> FullEnv]
    /\ envFault = FALSE
    /\ hosts = [n \in NodeNames |-> NoHost]
    /\ deployed = <<>>
    /\ instances = EmptyCloud.instances
    /\ disks = EmptyCloud.disks
    /\ firewalls = EmptyCloud.firewalls
    /\ desc = [boot_nodes |-> <<>>, validators |-> <<>>, teams |-> AllTeams]
    /\ \E nodes \in OddNodeLists :
         stack = <<Frame("caller", "apply",
                         [fn |-> "_derive_p2p_ports_from_listen_addresses",
                          entry |-> "start", args |-> [nodes |-> nodes],
                          result |-> None])>>

NextDerive ==
    \/ caller_apply
    \/ caller_result
    \/ apply_derive_p2p_ports_from_listen_addresses

SpecDerive == InitDerive /\ [][NextDerive]_vars

\* the (protocol, port) pairs at the protocol and port places of the listen
\* addresses of nodes, for protocols tcp and udp and ports made of digits
ExpectedPairs(nodes) ==
    LET addrs == UNION {Range(nodes[i].listen_addresses) : i \in DOMAIN nodes}
    IN {<<a.parts[4], a.parts[5]>> :
          a \in {b \in addrs : /\ Len(b.parts) >= 5
                               /\ b.parts[4] = "tcp" \/ b.parts[4] = "udp"
                               /\ b.parts[5] \in {"30303", "30304", "22"}}}

\* C35: the list _derive_p2p_ports_from_listen_addresses returns holds
\* exactly the (protocol, port) pairs of the listen addresses with protocol
\* tcp or udp and a port made of digits, each pair once.
C35_ExactPairs ==
    Built("_derive_p2p_ports_from_listen_addresses") =>
        LET ports == Loc.result IN
        /\ {<<ports[i].protocol, ports[i].port>> : i \in DOMAIN ports}
              = ExpectedPairs(Loc.args.nodes)
        /\ \A i, j \in DOMAIN ports : ports[i] = ports[j] => i = j

\* Two nodes with tcp 30303 twice, once between blanks, and an sctp
\* address between them: one entry.
C35_Witness ==
    /\ Built("_derive_p2p_ports_from_listen_addresses")
    /\ Loc.args.nodes[1].listen_addresses =
          <<MA(<<"", "ip4", "0.0.0.0", "tcp", "30303">>),
            MA(<<"", "ip4", "0.0.0.0", "sctp", "30303">>)>>
    /\ Loc.args.nodes[2].listen_addresses =
          <<[lead |-> TRUE, trail |-> TRUE,
             parts |-> <<"", "ip4", "10.9.9.9", "tcp", "30303">>]>>
    /\ Loc.result = <<[protocol |-> "tcp", port |-> "30303"]>>

-----------------------------------------------------------------------------
(* SpecRule: the infra stage on an empty project, for descriptors with and *)
(* without P2P ports.                                                      *)

\* v1 listening on a protocol that is neither tcp nor udp
QuietV1 ==
    [V1 EXCEPT !.listen_addresses = <<MA(<<"", "ip4", "0.0.0.0", "sctp", "30303">>)>>]

\* a boot node without listen address and a validator without tcp or udp port
Quiet == [boot_nodes |-> <<Mute>>, validators |-> <<QuietV1>>, teams |-> AllTeams]

InitRule ==
    /\ InitCommon
    /\ instances = EmptyCloud.instances
    /\ disks = EmptyCloud.disks
    /\ firewalls = EmptyCloud.firewalls
    /\ ledger = NoFile
    /\ desc \in {B1V1, Quiet}

SpecRule == InitRule /\ [][Next]_vars

\* the (protocol, port) pairs a rule allows
AllowedPairs(rule) ==
    UNION {{<<rule.allowed[i].IPProtocol, port>> : port \in rule.allowed[i].ports} :
           i \in DOMAIN rule.allowed}

\* C34: on a project without rule allow-validator-p2p, the rule an infra run
\* creates allows exactly the (protocol, port) pairs of the listen addresses
\* of all boot nodes and validators, with the validator tag as source and
\* as target; it exists before _collect_ips resolves an IP; and when there
\* is no such pair no rule is created and no insert is issued.
C34_RuleFromAllNodes ==
    LET expected == ExpectedPairs(desc.boot_nodes \o desc.validators)
        rule == firewalls[P2P_RULE]
    IN /\ rule.exists =>
             /\ AllowedPairs(rule) = expected
             /\ \A i, j \in DOMAIN rule.allowed :
                   rule.allowed[i].IPProtocol = rule.allowed[j].IPProtocol => i = j
             /\ rule.sourceTags = {VALIDATOR_TAG}
             /\ rule.targetTags = {VALIDATOR_TAG}
       /\ (expected # {} /\ OnStack({"_collect_ips"})) => rule.exists
       /\ expected = {} =>
             /\ ~rule.exists
             /\ \A i \in DOMAIN calls :
                   ~(calls[i].api = "firewalls.insert" /\ calls[i].target = P2P_RULE)

\* For boot node b1 and validator v1 the stage resolves IPs with the rule
\* in place: udp 30304 and tcp 30303.
C34_Witness ==
    /\ desc = B1V1
    /\ OnStack({"_collect_ips"})
    /\ firewalls[P2P_RULE].exists
    /\ AllowedPairs(firewalls[P2P_RULE]) = {<<"udp", "30304">>, <<"tcp", "30303">>}

\* For descriptors without tcp or udp port the stage saved its ledger and
\* no rule exists.
C34_QuietWitness ==
    /\ desc = Quiet
    /\ ledger.present
    /\ ~firewalls[P2P_RULE].exists

-----------------------------------------------------------------------------
(* SpecPartial: _build_bootstrap_multiaddrs on node lists in which two     *)
(* nodes may share a peer id and a listen address, with IP maps that lack  *)
(* a node.                                                                 *)

\* v2 described with Twin's peer id and Twin's address, written without the
\* blank
Shadow == [node_name |-> "v2", team |-> "teamB", peer_id |-> "peerV1b",
           address |-> "0xA4",
           listen_addresses |->
              <<MA(<<"", "ip4", "10.9.9.9", "tcp", "30303">>)>>]

PartialLists ==
    UNION {{s \in [1..n -> NodePool \cup {Shadow}] :
              \A i, j \in 1..n : s[i] = s[j] => i = j} : n \in 0..MaxNodes}

InitPartial ==
    /\ ret = NoRet
    /\ exc = NoExc
    /\ metadata = FALSE
    /\ op = NoOp
    /\ calls = <<>>
    /\ last = NoCall
    /\ ledger = NoFile
    /\ ledger0 = NoFile
    /\ saves = 0
    /\ run = [n |-> 1, stage |-> "none", env |-> FullEnv]
    /\ envFault = FALSE
    /\ hosts = [n \in NodeNames |-> NoHost]
    /\ deployed = <<>>
    /\ instances = EmptyCloud.instances
    /\ disks = EmptyCloud.disks
    /\ firewalls = EmptyCloud.firewalls
    /\ desc = [boot_nodes |-> <<>>, validators |-> <<>>, teams |-> AllTeams]
    /\ \E fn \in Builders, nodes \in PartialLists :
         \E name_to_ips \in IpMaps(nodes) :
            stack = <<Frame("caller", "first",
                            [fn |-> fn, nodes |-> nodes, permuted |-> nodes,
                             name_to_ips |-> name_to_ips,
                             first |-> None, second |-> None])>>

SpecPartial == InitPartial /\ [][NextBuild]_vars

\* name_to_ips holds an internal IP for node m
KnownIp(m, name_to_ips) ==
    /\ m.node_name \in DOMAIN name_to_ips
    /\ name_to_ips[m.node_name].kind = "dict"
    /\ name_to_ips[m.node_name].internal # None

\* every value of name_to_ips is a record of addresses
AllRecords(name_to_ips) ==
    \A name \in DOMAIN name_to_ips : name_to_ips[name].kind = "dict"

\* the places in nodes of the nodes other than name that may contribute
\* entry e: internal IP known, a listen address, e built from the first one
SourcesOf(e, name, nodes, name_to_ips) ==
    {k \in DOMAIN nodes :
       /\ nodes[k].node_name # name
       /\ KnownIp(nodes[k], name_to_ips)
       /\ nodes[k].listen_addresses # <<>>
       /\ e = EntryOf(nodes[k], name_to_ips[nodes[k].node_name].internal)}

FirstSource(e, name, nodes, name_to_ips) ==
    CHOOSE k \in SourcesOf(e, name, nodes, name_to_ips) :
        \A l \in SourcesOf(e, name, nodes, name_to_ips) : k <= l

\* C36: for nodes with distinct node_names and an IP map whose values are
\* records, _build_bootstrap_multiaddrs raises nothing, and in the CSV of
\* every node n each entry is the normalized first listen address and peer
\* id of another input node whose internal IP the map holds (so a node
\* absent from the map, or held with a null internal IP, contributes
\* nothing); no entry occurs twice, and the entries are in the order in which
\* the input first has a node contributing them.
C36_PartialIps ==
    /\ (exc.type = "AttributeError" /\ "nodes" \in DOMAIN exc.loc) =>
          ~AllRecords(exc.loc.name_to_ips)
    /\ (/\ Built("_build_bootstrap_multiaddrs")
        /\ DistinctBy(Loc.nodes, "node_name")
        /\ AllRecords(Loc.name_to_ips)) =>
          /\ DOMAIN Loc.first = NamesOf(Loc.nodes)
          /\ \A name \in NamesOf(Loc.nodes) :
               LET csv == Loc.first[name]
                   first(e) == FirstSource(e, name, Loc.nodes, Loc.name_to_ips)
               IN /\ \A i \in DOMAIN csv :
                        SourcesOf(csv[i], name, Loc.nodes, Loc.name_to_ips) # {}
                  /\ \A i, j \in DOMAIN csv : csv[i] = csv[j] => i = j
                  /\ \A i, j \in DOMAIN csv :
                        i < j => first(csv[i]) < first(csv[j])

\* b1, v1 and v2 with v1 held with null addresses: b1's CSV has v2's first
\* listen address only, and v2's has b1's.
C36_Witness ==
    /\ Built("_build_bootstrap_multiaddrs")
    /\ Loc.nodes = <<B1, V1, V2>>
    /\ Loc.name_to_ips = IpMap("v1", "null")
    /\ Loc.first["b1"] = <<EntryOf(V2, IntIP("v2"))>>
    /\ Loc.first["v2"] = <<EntryOf(B1, IntIP("b1"))>>
    /\ Len(Loc.first["v1"]) = 2

\* Twin and Shadow contribute the same entry to b1, which has it once.
C36_DedupeWitness ==
    /\ Built("_build_bootstrap_multiaddrs")
    /\ Loc.nodes = <<Twin, B1, Shadow>>
    /\ Loc.name_to_ips = IpMap(None, "full")
    /\ Len(Loc.first["b1"]) = 1

-----------------------------------------------------------------------------
(* Addresses handed to the deployments, checked under SpecApp.             *)

\* the described nodes
DescribedNodes == Range(desc.boot_nodes) \cup Range(desc.validators)

\* C37: every entry of the peer_addrs a deploy_boot_node or deploy_validator
\* is called with ends in the peer id of a described node; its host is
\* neither a wildcard or loopback address nor the external IP of any node;
\* and where that node's first listen address has a wildcard or loopback
\* host, the entry's host is the node's internal IP.
C37_InternalOnly ==
    \A i \in DOMAIN stack :
        stack[i].fn \in DeployFns =>
          \A a \in Range(stack[i].loc.peer_addrs) :
              /\ a.parts[3] \notin Sentinels
              /\ a.parts[3] \notin {ExtIP(n) : n \in NodeNames}
              /\ \E m \in DescribedNodes : m.peer_id = a.parts[Len(a.parts)]
              /\ \A m \in DescribedNodes :
                    (/\ m.peer_id = a.parts[Len(a.parts)]
                     /\ m.listen_addresses[1].parts[3] \in Sentinels) =>
                        a.parts[3] = IntIP(m.node_name)

\* The ledger has no record of b2; deploy_boot_nodes resolved it live and
\* b1 is being deployed with b2's internal address as its peer.
C37_Witness ==
    /\ ledger.present
    /\ \E i \in DOMAIN stack :
         /\ stack[i].fn = "deploy_boot_nodes"
         /\ stack[i].loc.resolved = {"b2"}
         /\ i < Len(stack)
         /\ stack[i + 1].fn = "deploy_boot_node"
         /\ stack[i + 1].loc.node = B1
         /\ stack[i + 1].loc.peer_addrs =
               <<MA(<<"", "ip4", "10.0.0.4", "udp", "30304", "p2p", "peerB2">>)>>

\* All addresses come from the ledger: v1 is being deployed with the
\* internal addresses of both boot nodes.
C37_LedgerWitness ==
    \E f \in FramesOf("deploy_validator") :
        /\ f.loc.node = V1
        /\ f.loc.peer_addrs =
              <<MA(<<"", "ip4", "10.0.0.1", "udp", "30304", "p2p", "peerB1">>),
                MA(<<"", "ip4", "10.0.0.4", "udp", "30304", "p2p", "peerB2">>)>>

-----------------------------------------------------------------------------
(* SpecTerminate: one infra run on an empty or a drifted project, the     *)
(* process running on.                                                     *)

InitTerminate ==
    /\ InitCommon
    /\ \E cloud \in {EmptyCloud, DriftedCloud} :
         /\ instances = cloud.instances
         /\ disks = cloud.disks
         /\ firewalls = cloud.firewalls
    /\ ledger = NoFile
    /\ desc \in Descs \cup {B1V1}

\* python tools/deploynet.py --stage infra, once
StartOnce == run.n = 0 /\ StartInfra

NextTerminate ==
    \/ StartOnce
    \/ Provisioning
    \/ main_infra_done_return

\* the process is in the poll loop of an operation wait
Waiting ==
    \/ At("_wait_for_operation", "poll")
    \/ At("_wait_for_global_operation", "poll")

\* a started python process runs on: it is never suspended for ever before
\* its next statement.  What a poll of an unfinished operation returns is
\* the cloud's choice, and no fairness is assumed of it.
SpecTerminate ==
    InitTerminate /\ [][NextTerminate]_vars /\ WF_vars(NextTerminate /\ ~Waiting)

\* every operation waited for is eventually reported DONE
OperationsFinish == [](Waiting => <>(op.status = "DONE"))

\* provision_infra has ended: by raising, or having saved the ledger
InfraEnded ==
    /\ ~Running("provision_infra")
    /\ exc.type # "none" \/ (ledger.present /\ saves > 0)

\* C38: if every operation waited for is eventually reported DONE, a started
\* provision_infra ends, having saved the ledger or raising, whatever the
\* instances' statuses and addresses do; and a step of an operation wait
\* that is not shown DONE leaves the stack, the exception and the ledger as
\* they are, so a wait whose operation is never DONE never ends.
C38_InfraTerminates ==
    /\ OperationsFinish => (Running("provision_infra") ~> InfraEnded)
    /\ [][(Waiting /\ op'.status # "DONE") =>
            /\ stack' = stack
            /\ exc' = exc
            /\ ledger' = ledger
            /\ saves' = saves]_vars

\* _collect_ips started b1, which never became RUNNING: the stage ended with
\* RuntimeError at the 180 s deadline, the ledger not saved.
C38_Witness ==
    /\ stack = <<>>
    /\ exc.type = "RuntimeError"
    /\ exc.msg = "did not reach RUNNING state in time"
    /\ \E i \in DOMAIN exc.trace : exc.trace[i] = "provision_infra"
    /\ exc.loc.elapsed >= StartDeadline
    /\ ~ledger.present

\* The stage ended by saving the ledger.
C38_SavedWitness ==
    /\ ~Running("provision_infra")
    /\ exc.type = "none"
    /\ ledger.present
    /\ saves > 0
    /\ desc = B1V1

\* An instance never got its external address: RuntimeError at the deadline.
C38_NoAddressWitness ==
    /\ stack = <<>>
    /\ exc.type = "RuntimeError"
    /\ \E i \in DOMAIN exc.trace : exc.trace[i] = "provision_infra"
    /\ "elapsed" \in DOMAIN exc.loc
    /\ exc.loc.elapsed >= NatDeadline
    /\ exc.msg # "did not reach RUNNING state in time"

-----------------------------------------------------------------------------
(* The app stage of a --stage all process, checked under SpecStages.       *)

\* name_to_ips holds a record of both addresses for every one of nodes
RecordsFor(name_to_ips, nodes) ==
    \A n \in NamesOf(nodes) :
        /\ n \in DOMAIN name_to_ips
        /\ name_to_ips[n].kind = "dict"
        /\ {"external", "internal"} \subseteq DOMAIN name_to_ips[n]

\* C39: in a --stage all process, deploy_boot_nodes and deploy_apps never
\* resolve a name live, and once they have loaded the ledger their IP maps
\* hold a record with "external" and "internal" for every boot node and
\* every validator of the descriptor.
C39_NoFallbackAfterInfra ==
    run.stage = "all" =>
        \A i \in DOMAIN stack :
            LET f == stack[i] IN
            /\ f.fn = "deploy_boot_nodes" =>
                 /\ f.loc.resolved = {}
                 /\ f.pc \notin {"external", "internal"}
                 /\ f.pc # "load" => RecordsFor(f.loc.name_to_ips, desc.boot_nodes)
            /\ f.fn = "deploy_apps" =>
                 /\ f.loc.resolved = {}
                 /\ f.pc \notin {"val_resolved", "boot_resolved"}
                 /\ f.pc # "load" =>
                      /\ RecordsFor(f.loc.name_to_ips_vals, desc.validators)
                      /\ RecordsFor(f.loc.name_to_ips_boot, desc.boot_nodes)

\* On an empty project without ledger, --stage all has saved the ledger and
\* deploy_apps, past its fallback loops, deploys the validators.
C39_Witness ==
    /\ run.stage = "all"
    /\ saves = 1
    /\ ~ledger0.present
    /\ \E c \in Range(calls) : c.api = "instances.insert"
    /\ \E f \in FramesOf("deploy_apps") :
         /\ f.pc = "deploy"
         /\ f.loc.resolved = {}
         /\ f.loc.name_to_ips_boot["b1"] = IpsDict(ExtIP("b1"), IntIP("b1"))

\* The same, with b1's internal address unread: its record holds null.
C39_NullWitness ==
    /\ run.stage = "all"
    /\ \E f \in FramesOf("deploy_boot_nodes") :
         /\ f.pc = "deploy"
         /\ f.loc.resolved = {}
         /\ f.loc.name_to_ips["b1"] = IpsDict(ExtIP("b1"), None)

-----------------------------------------------------------------------------
(* SpecConstruct: the construction of a provider, of either implementation *)
(* (tools/gcp/provider.py, tools/cloud/gcp/provider.py), on a project with *)
(* or without the rule allow-ssh.                                          *)

\* tools/cloud/gcp/provider.py, GCPProvider.__init__: ensure_ssh_key_exists,
\* then self._ensure_firewall_rule()
cloud_provider_init ==
    /\ At("cloud.GCPProvider.__init__", "start")
    /\ metadata' = TRUE
    /\ calls' = IF metadata THEN calls
                ELSE Logged("projects.setCommonInstanceMetadata", "ssh-keys", None,
                            "unwaited")
    /\ Call("return", Loc,
            Frame("cloud._ensure_firewall_rule", "start",
                  [c0 |-> Len(calls'), existed |-> firewalls[SSH_RULE].exists]))
    /\ UNCHANGED <<instances, disks, firewalls, op, last, ledgerVars, desc, run,
                   envFault, hosts, deployed>>

\* tools/cloud/gcp/provider.py, _ensure_firewall_rule: after the insert the
\* module-level _wait_for_global_operation(self, operation_name) is called
\* with op["name"] alone, which raises TypeError before any poll
cloud_ensure_firewall_rule ==
    /\ At("cloud._ensure_firewall_rule", "start")
    /\ IF SshRuleExists(ExistingRules)
       THEN /\ Goto("return", Loc)
            /\ UNCHANGED <<op, calls>>
       ELSE IF Rejected("firewalls.insert", SSH_RULE, SSHRule)
            THEN /\ calls' = Logged("firewalls.insert", SSH_RULE, SSHRule, "rejected")
                 /\ op' = op
                 /\ Raise("HttpError", "rejected")
            ELSE /\ calls' = Logged("firewalls.insert", SSH_RULE, SSHRule, "pending")
                 /\ op' = [api |-> "firewalls.insert", target |-> SSH_RULE,
                           body |-> SSHRule, status |-> "PENDING", error |-> FALSE]
                 /\ Raise("TypeError",
                          "_wait_for_global_operation() missing 1 required positional argument: 'operation_name'")
    /\ UNCHANGED <<instances, disks, firewalls, metadata, last, ledgerVars, desc,
                   run, envFault, hosts, deployed>>

cloud_ensure_firewall_rule_return ==
    /\ At("cloud._ensure_firewall_rule", "return")
    /\ Return(None)
    /\ last' = Observed("_ensure_firewall_rule", SSH_RULE, Loc.existed, None,
                        Loc.c0, calls)
    /\ UNCHANGED <<cloudVars, ledgerVars, desc, run, envFault, hosts, deployed>>

cloud_provider_init_return ==
    /\ At("cloud.GCPProvider.__init__", "return")
    /\ Return(None)
    /\ UNCHANGED <<cloudVars, last, ledgerVars, desc, run, envFault, hosts, deployed>>

Constructors == {"GCPProvider.__init__", "cloud.GCPProvider.__init__"}

InitConstruct ==
    /\ ret = NoRet
    /\ exc = NoExc
    /\ op = NoOp
    /\ calls = <<>>
    /\ last = NoCall
    /\ ledger = NoFile
    /\ ledger0 = NoFile
    /\ saves = 0
    /\ run = [n |-> 1, stage |-> "none", env |-> FullEnv]
    /\ envFault = FALSE
    /\ hosts = [n \in NodeNames |-> NoHost]
    /\ deployed = <<>>
    /\ desc = B1V1
    /\ metadata \in BOOLEAN
    /\ \E cloud \in {EmptyCloud, DriftedCloud, ProvisionedCloud} :
         /\ instances = cloud.instances
         /\ disks = cloud.disks
    /\ \E ssh \in {NoRule, SSHRule}, p2p \in {NoRule, ProvisionedCloud.firewalls[P2P_RULE]} :
         firewalls = [r \in {SSH_RULE, P2P_RULE} |-> IF r = SSH_RULE THEN ssh ELSE p2p]
    /\ \E fn \in Constructors :
         stack = <<Frame("caller", "apply",
                         [fn |-> fn, entry |-> "start", args |-> [x |-> None],
                          result |-> None, existed |-> firewalls[SSH_RULE].exists])>>

NextConstruct ==
    \/ caller_apply
    \/ caller_result
    \/ provider_init
    \/ ensure_firewall_rule
    \/ ensure_firewall_rule_return
    \/ provider_init_return
    \/ wait_for_global_operation
    \/ cloud_provider_init
    \/ cloud_ensure_firewall_rule
    \/ cloud_ensure_firewall_rule_return
    \/ cloud_provider_init_return

SpecConstruct == InitConstruct /\ [][NextConstruct]_vars

\* the inserts of rule allow-ssh issued so far
SshInserts ==
    {i \in DOMAIN calls :
       calls[i].api = "firewalls.insert" /\ calls[i].target = SSH_RULE}

\* the construction by constructor fn has ended, no cloud operation having
\* reported an error
Constructed(fn) ==
    /\ ~envFault
    /\ ~OnStack(Constructors)
    /\ \/ Built(fn)
       \/ stack = <<>> /\ exc.type # "none" /\ exc.trace[2] = fn

\* on a project that had rule allow-ssh or not (existed), the construction
\* by fn ended as the SSH rule singleton requires
SshRuleSingleton(fn, existed) ==
    /\ exc.type = "none"
    /\ firewalls[SSH_RULE].exists
    /\ firewalls[SSH_RULE].allowed = <<[IPProtocol |-> "tcp", ports |-> {"22"}]>>
    /\ firewalls[SSH_RULE].targetTags = {VALIDATOR_TAG}
    /\ IF existed THEN SshInserts = {}
       ELSE /\ Cardinality(SshInserts) = 1
            /\ \A i \in SshInserts : calls[i].result = "ok"

\* C40: when the construction of a provider of either implementation has
\* ended without a failed cloud operation, it has not raised and rule
\* allow-ssh exists (tcp:22, target tag validator); it issued no firewall
\* insert when the rule existed before, and one insert, waited for until
\* DONE, when it did not.
C40_SshRuleSingleton ==
    \A fn \in Constructors :
        Constructed(fn) =>
            SshRuleSingleton(fn, IF stack = <<>> THEN exc.loc.existed ELSE Loc.existed)

\* tools/cloud/gcp/provider.py on a project without the rule: the insert
\* was issued and the construction ended with TypeError, the operation
\* never polled and the rule not seen to exist.
C40_Witness ==
    /\ stack = <<>>
    /\ exc.type = "TypeError"
    /\ exc.trace = <<"caller", "cloud.GCPProvider.__init__", "cloud._ensure_firewall_rule">>
    /\ Cardinality(SshInserts) = 1
    /\ \A i \in SshInserts : calls[i].result = "pending"
    /\ op.status = "PENDING"
    /\ ~firewalls[SSH_RULE].exists

\* tools/gcp/provider.py on a project without the rule: one insert, waited
\* for, and the construction completed.
C40_FirstProviderWitness ==
    /\ Built("GCPProvider.__init__")
    /\ ~Loc.existed
    /\ SshRuleSingleton("GCPProvider.__init__", FALSE)

\* tools/cloud/gcp/provider.py on a project with the rule: no insert.
C40_ExistingRuleWitness ==
    /\ Built("cloud.GCPProvider.__init__")
    /\ Loc.existed
    /\ SshRuleSingleton("cloud.GCPProvider.__init__", TRUE)

-----------------------------------------------------------------------------
(* The public methods of GCPProvider of tools/cloud/gcp/provider.py.       *)

\* create_instance: an instance found in the listing is returned as it is,
\* tags and status unread; otherwise the insert, with the validator tag
\* and an access config, is issued and waited for.
cloud_create_instance ==
    /\ At("cloud.create_instance", "list")
    /\ LET name == Loc.validator.node_name IN
       IF InstanceExists(ExistingInstances, name)
       THEN /\ Goto("return", Loc)
            /\ UNCHANGED <<op, calls>>
       ELSE \E status \in {"PROVISIONING", "RUNNING"} :
              IssueAndWait("instances.insert", name, NewInstance(status),
                           "return", Loc, "_wait_for_operation")
    /\ UNCHANGED <<instances, disks, firewalls, metadata, last, ledgerVars, desc,
                   run, envFault, hosts, deployed>>

cloud_create_instance_return ==
    /\ At("cloud.create_instance", "return")
    /\ Return([name |-> Loc.validator.node_name])
    /\ last' = Observed("cloud.create_instance", Loc.validator.node_name,
                        Loc.existed, [name |-> Loc.validator.node_name], Loc.c0,
                        calls)
    /\ UNCHANGED <<cloudVars, ledgerVars, desc, run, envFault, hosts, deployed>>

cloud_create_volume == CreateVolume("cloud.create_volume")
cloud_create_volume_return == CreateVolumeReturn("cloud.create_volume")

cloud_attach_volume == AttachVolume("cloud.attach_volume")
cloud_attach_volume_return == AttachVolumeReturn("cloud.attach_volume")

\* _get_instance_ip: one read of the instance;
\* inst["networkInterfaces"][0]["accessConfigs"][0]["natIP"] raises
\* KeyError on the first of the three that the instance lacks.  The
\* instance is not started, no access config is added, and the address is
\* not waited for.
cloud_get_instance_ip ==
    /\ At("cloud._get_instance_ip", "get")
    /\ LET name == Loc.name IN
       IF ~instances[name].exists
       THEN /\ Raise("HttpError", "not found")
            /\ UNCHANGED <<instances, envFault>>
       ELSE \E inst \in Evolve(instances[name]) :
              /\ instances' = [instances EXCEPT ![name] = inst]
              /\ CASE ~inst.nic -> /\ Raise("KeyError", "networkInterfaces")
                                   /\ envFault' = TRUE
                   [] inst.nic /\ ~inst.ac -> /\ Raise("KeyError", "accessConfigs")
                                              /\ envFault' = envFault
                   [] inst.nic /\ inst.ac /\ ~inst.natIP ->
                        /\ Raise("KeyError", "natIP")
                        /\ envFault' = envFault
                   [] OTHER -> /\ Return(ExtIP(name))
                               /\ envFault' = envFault
    /\ UNCHANGED <<disks, firewalls, metadata, op, calls, last, ledgerVars, desc,
                   run, hosts, deployed>>

\* ip = self._get_instance_ip(name)
cloud_deploy_validator ==
    /\ At("cloud.deploy_validator", "resolve")
    /\ hosts' = [hosts EXCEPT ![Loc.node.node_name].trace = <<>>]
    /\ Call("wait", Loc, Frame("cloud._get_instance_ip", "get",
                               [name |-> Loc.node.node_name]))
    /\ UNCHANGED <<cloudVars, last, ledgerVars, desc, run, envFault, deployed>>

cloud_deploy_validator_wait == DeployWait("cloud.deploy_validator")
cloud_deploy_validator_connect == DeployConnect("cloud.deploy_validator")
cloud_deploy_validator_remote == DeployRemote("cloud.deploy_validator", ValidatorSteps)

\* The chain of str.replace calls of deploy_validator of
\* tools/cloud/gcp/provider.py.
CloudValidatorValues(validator) ==
    [address |-> StrVal(validator.address),
     node_name |-> StrVal(validator.node_name),
     peer_id |-> StrVal(validator.peer_id),
     team |-> StrVal(validator.team),
     listen_addresses |-> CsvVal(validator.listen_addresses)]

\* deploy_validator from the config load to the composed command:
\* --restart unless-stopped, no --network option, the two -v mounts, one
\* -e per env entry with the value as the config gives it, --name, the
\* image, the arguments; the text is kept without the blanks, backslashes
\* and newlines at its end
cloud_deploy_validator_render ==
    /\ At("cloud.deploy_validator", "render")
    /\ LET v == Loc.validator
           config == Loc.config
       IN Return([restart |-> "unless-stopped",
                  network |-> "default",
                  publish |-> <<>>,
                  volumes |-> <<<<<<"/mnt/disks/", v.node_name>>, config.data_dir>>,
                                <<"/home/ubuntu/identity.json",
                                  config.p2p_identity_path>>>>,
                  env |-> config.env,
                  name |-> v.node_name,
                  image |-> config.image,
                  args |-> StrippedArgs(RenderArgs(config.cmd,
                                                   CloudValidatorValues(v)))])
    /\ UNCHANGED <<cloudVars, last, ledgerVars, desc, run, envFault, hosts, deployed>>

-----------------------------------------------------------------------------
(* SpecCloud: one call of a public method of GCPProvider of                *)
(* tools/cloud/gcp/provider.py on an empty, a drifted and a provisioned    *)
(* project.                                                                *)

CloudCalls(cloud) ==
    {[fn |-> "cloud.create_instance", entry |-> "list", result |-> None,
      args |-> [validator |-> v, c0 |-> 0,
                existed |-> cloud.instances[v.node_name].exists]] :
       v \in {V1, V2}}
    \cup
    {[fn |-> "cloud.create_volume", entry |-> "list", result |-> None,
      args |-> [validator |-> v, disk_size |-> disk_size, c0 |-> 0,
                existed |-> cloud.disks[DiskName(v.node_name)] # 0]] :
       v \in {V1, V2}, disk_size \in {20, 50}}
    \cup
    {[fn |-> "cloud.attach_volume", entry |-> "get", result |-> None,
      args |-> [instance |-> [name |-> v.node_name],
                volume_name |-> DiskName(v.node_name), c0 |-> 0,
                existed |-> DiskName(v.node_name)
                              \in cloud.instances[v.node_name].disks]] :
       v \in {V1, V2}}
    \cup
    {[fn |-> "cloud.deploy_validator", entry |-> "resolve", result |-> None,
      args |-> [node |-> V1, peer_addrs |-> <<>>, validator_addrs |-> <<>>,
                ip |-> None, k |-> 1]]}
    \cup
    {[fn |-> "cloud.deploy_validator", entry |-> "render", result |-> None,
      args |-> [validator |-> v, config |-> config]] :
       v \in {V1, V2Spaced}, config \in RunConfigs}

InitCloud ==
    /\ ret = NoRet
    /\ exc = NoExc
    /\ metadata = TRUE
    /\ op = NoOp
    /\ calls = <<>>
    /\ last = NoCall
    /\ ledger = NoFile
    /\ ledger0 = NoFile
    /\ saves = 0
    /\ run = [n |-> 1, stage |-> "none", env |-> FullEnv]
    /\ envFault = FALSE
    /\ hosts = [n \in NodeNames |-> NoHost]
    /\ deployed = <<>>
    /\ \E run_yaml \in BOOLEAN :
         desc = [B1V1 EXCEPT !.teams["teamA"] = TeamConfig(TRUE, run_yaml, TRUE, 0)]
    /\ \E cloud \in {EmptyCloud, DriftedCloud, ProvisionedCloud} :
         /\ instances = cloud.instances
         /\ disks = cloud.disks
         /\ firewalls = cloud.firewalls
         /\ \E call \in CloudCalls(cloud) :
              stack = <<Frame("caller", "apply", call)>>

NextCloud ==
    \/ caller_apply
    \/ caller_result
    \/ cloud_create_instance
    \/ cloud_create_instance_return
    \/ cloud_create_volume
    \/ cloud_create_volume_return
    \/ cloud_attach_volume
    \/ cloud_attach_volume_return
    \/ wait_for_operation
    \/ cloud_get_instance_ip
    \/ cloud_deploy_validator
    \/ cloud_deploy_validator_wait
    \/ cloud_deploy_validator_connect
    \/ cloud_deploy_validator_remote
    \/ cloud_deploy_validator_render
    \/ wait_for_ssh
    \/ ssh_connect

SpecCloud == InitCloud /\ [][NextCloud]_vars

\* create_instance of tools/cloud/gcp/provider.py returns the name it was
\* given; on an instance that existed it issues no cloud call and leaves
\* the tags as they were, on none it issues one insert.
CreateInstanceSkipsExisting ==
    Built("cloud.create_instance") =>
        /\ Loc.result = [name |-> Loc.args.validator.node_name]
        /\ last.issued = IF Loc.args.existed THEN <<>> ELSE <<"instances.insert">>

\* v1 of the drifted project after create_instance: no call issued, the
\* validator tag still missing.
CreateInstanceDriftedWitness ==
    /\ Built("cloud.create_instance")
    /\ Loc.args.existed
    /\ calls = <<>>
    /\ VALIDATOR_TAG \notin instances[Loc.args.validator.node_name].tags

\* deploy_validator of tools/cloud/gcp/provider.py completed
CloudDeployedWitness ==
    /\ Built("cloud.deploy_validator")
    /\ Loc.entry = "resolve"
    /\ exc.type = "none"
    /\ Len(hosts["v1"].trace) > 0

=============================================================================
